---------------------------- MODULE Spec2Model ----------------------------
(***************************************************************************)
(* A model of the EasyPal / DRM Mode B encoder and decoder of              *)
(* milesburton/easypal-toolkit: convolutional codec, CRCs, framer          *)
(* (FAC / SDC / MSC), interleavers, slot layout and the top-level          *)
(* encode / decode chain.                                                  *)
(*                                                                         *)
(* Sequences are 1-based here and 0-based in the source: element i of a    *)
(* source array is element i + 1 of the sequence that models it.           *)
(***************************************************************************)
EXTENDS Integers, Sequences, FiniteSets, TLC

VARIABLES
    fecPc,      \* position of the codec run: "input", "encoded", "decoded"
    fecIn,      \* bits given to convEncode
    fecPunct,   \* name of the puncture pattern in use
    fecEnc,     \* output of convEncode
    fecOut,     \* output of viterbiDecode
    ilvIn,      \* the cell array the interleaver run started from
    ilvCells,   \* the cell array after the operations applied so far
    ilvOps,     \* names of the interleaver operations applied, in order
    frmPc,      \* position of the framer run
    frmKind,    \* channel of the run: "FAC", "SDC" or "MSC"
    frmIn,      \* what is encoded: SDC parameters or the MSC payload
    frmWire,    \* the encoded form: FAC bits, SDC bytes, MSC segments or bytes
    frmFlip,    \* 0-based index of the bit flipped on the wire, or -1
    frmOut,     \* what the decoding function returned
    slotSym,    \* symbol index of the slot scan (the outer loop variable)
    slotKi,     \* carrier index of the slot scan (the inner loop variable)
    slotList,   \* the MSC slots pushed so far
    pipePc,     \* position of the encode / decode chain
    pipePayload,\* the JPEG bytes given to the encoder
    pipeNoise,  \* the channel's residual error, one pair per frame, cyclic
    pipePlan,   \* the encoder's bit streams (steps 2 to 7 of encodeImage)
    pipeFrames, \* the frames modulated so far
    pipeRx,     \* the decoder's accumulated MSC, FAC and SDC bits
    pipeOut,    \* what decodeSamples returned
    szPc,       \* position of the encoder run that is followed by sizes only
    szBytes,    \* byte length of the JPEG data given to that run
    szOut,      \* the sizes the run has produced so far
    ofdmPc,     \* position of the symbol assembly of one ofdmModulate call
    ofdmIfft,   \* the IFFT output of each symbol of the frame
    ofdmOut,    \* the output samples written so far
    qamPc,      \* position of the mapping of two bit labels
    qamBits,    \* the two bit labels
    qamCells,   \* the constellation points the labels map to
    qamOut      \* the labels the demapper returns for the points

fecVars == <<fecPc, fecIn, fecPunct, fecEnc, fecOut>>

ilvVars == <<ilvIn, ilvCells, ilvOps>>

frmVars == <<frmPc, frmKind, frmIn, frmWire, frmFlip, frmOut>>

slotVars == <<slotSym, slotKi, slotList>>

pipeVars == <<pipePc, pipePayload, pipeNoise, pipePlan, pipeFrames, pipeRx, pipeOut>>

sizeVars == <<szPc, szBytes, szOut>>

ofdmVars == <<ofdmPc, ofdmIfft, ofdmOut>>

qamVars == <<qamPc, qamBits, qamCells, qamOut>>

vars == <<fecVars, ilvVars, frmVars, slotVars, pipeVars, sizeVars, ofdmVars, qamVars>>

\* the variables each component leaves alone
NotFec == <<ilvVars, frmVars, slotVars, pipeVars, sizeVars, ofdmVars, qamVars>>

NotIlv == <<fecVars, frmVars, slotVars, pipeVars, sizeVars, ofdmVars, qamVars>>

NotFrm == <<fecVars, ilvVars, slotVars, pipeVars, sizeVars, ofdmVars, qamVars>>

NotSlot == <<fecVars, ilvVars, frmVars, pipeVars, sizeVars, ofdmVars, qamVars>>

NotPipe == <<fecVars, ilvVars, frmVars, slotVars, sizeVars, ofdmVars, qamVars>>

NotSize == <<fecVars, ilvVars, frmVars, slotVars, pipeVars, ofdmVars, qamVars>>

NotOfdm == <<fecVars, ilvVars, frmVars, slotVars, pipeVars, sizeVars, qamVars>>

NotQam == <<fecVars, ilvVars, frmVars, slotVars, pipeVars, sizeVars, ofdmVars>>

\* the codec is not in use
FecIdle ==
    /\ fecPc = "idle"
    /\ fecIn = <<>>
    /\ fecPunct = "none"
    /\ fecEnc = <<>>
    /\ fecOut = <<>>

\* the interleavers are not in use
IlvIdle ==
    /\ ilvIn = <<>>
    /\ ilvCells = <<>>
    /\ ilvOps = <<"idle">>

\* the framer is not in use
FrmIdle ==
    /\ frmPc = "idle"
    /\ frmKind = "none"
    /\ frmIn = <<>>
    /\ frmWire = <<>>
    /\ frmFlip = -1
    /\ frmOut = <<>>

\* no slot scan is running
SlotIdle ==
    /\ slotSym = -1
    /\ slotKi = -1
    /\ slotList = <<>>

\* the encode / decode chain is not in use
PipeIdle ==
    /\ pipePc = "idle"
    /\ pipePayload = <<>>
    /\ pipeNoise = <<>>
    /\ pipePlan = <<>>
    /\ pipeFrames = <<>>
    /\ pipeRx = <<>>
    /\ pipeOut = <<>>

\* no encoder run is followed by sizes
SizeIdle ==
    /\ szPc = "idle"
    /\ szBytes = 0
    /\ szOut = <<>>

\* no frame is being assembled
OfdmIdle ==
    /\ ofdmPc = "idle"
    /\ ofdmIfft = <<>>
    /\ ofdmOut = <<>>

\* no labels are being mapped
QamIdle ==
    /\ qamPc = "idle"
    /\ qamBits = <<>>
    /\ qamCells = <<>>
    /\ qamOut = <<>>

---------------------------------------------------------------------------
(* Integer and bit helpers (JavaScript's 32-bit operators on the small     *)
(* non-negative values the code gives them).                               *)

Pow2(n) == 2 ^ n

RECURSIVE BitAnd(_, _)
BitAnd(a, b) ==
    IF a = 0 \/ b = 0 THEN 0
    ELSE (a % 2) * (b % 2) + 2 * BitAnd(a \div 2, b \div 2)

RECURSIVE BitXor(_, _)
BitXor(a, b) ==
    IF a = 0 THEN b
    ELSE IF b = 0 THEN a
    ELSE ((a + b) % 2) + 2 * BitXor(a \div 2, b \div 2)

RECURSIVE BitOr(_, _)
BitOr(a, b) ==
    IF a = 0 THEN b
    ELSE IF b = 0 THEN a
    ELSE (IF a % 2 = 1 \/ b % 2 = 1 THEN 1 ELSE 0) + 2 * BitOr(a \div 2, b \div 2)

Min(a, b) == IF a < b THEN a ELSE b

Max(a, b) == IF a > b THEN a ELSE b

CeilDiv(a, b) == (a + b - 1) \div b

SubSeqFrom(s, lo, hi) == IF lo > hi THEN <<>> ELSE SubSeq(s, lo, hi)

\* A loop `for (i = lo; i <= hi; i++) acc = Op(acc, i)`.  The range is
\* split in halves and every intermediate result is bound to a value
\* before it is used, so that long loops neither nest deeply nor are
\* evaluated more than once.
RECURSIVE FoldRange(_, _, _, _)
FoldRange(Op(_, _), acc, lo, hi) ==
    IF lo > hi THEN acc
    ELSE IF lo = hi THEN Op(acc, lo)
    ELSE CHOOSE r \in
            {FoldRange(Op, left, (lo + hi) \div 2 + 1, hi) :
                left \in {FoldRange(Op, acc, lo, (lo + hi) \div 2)}} : TRUE

\* the sequence <<F(1), ..., F(n)>>, built once
MakeSeq(n, F(_)) == [i \in 1 .. n |-> F(i)] \o <<>>

---------------------------------------------------------------------------
(* drmConstants.ts: forward error correction                               *)

\* 0o133, 0o171, 0o145, 0o165, 0o117, 0o135
CONV_POLYNOMIALS == <<91, 121, 101, 117, 79, 93>>

CONV_STATES == 64

PUNCTURE_FAC == <<1, 1, 0, 1, 1, 0>>

PUNCTURE_MSC == <<1, 1, 0, 1, 0, 0>>

PUNCTURE_SDC == <<1, 1, 0, 0, 0, 0>>

PunctureNames == {"MSC", "FAC", "SDC"}

Puncture(name) ==
    CASE name = "MSC" -> PUNCTURE_MSC
      [] name = "FAC" -> PUNCTURE_FAC
      [] name = "SDC" -> PUNCTURE_SDC

\* constraint length of the code (the local K of convEncode / viterbiDecode)
ConvK == 7

MAX_PM == 1000000000

---------------------------------------------------------------------------
(* drmFec.ts: convolutional encoder                                        *)

RECURSIVE popcount(_)
popcount(x) == IF x = 0 THEN 0 ELSE (x % 2) + popcount(x \div 2)

\* parity of (fullState & CONV_POLYNOMIALS[i]), i 0-based, for every
\* 7-bit register word; evaluated once
ParityTable ==
    [fullState \in 0 .. 2 * CONV_STATES - 1 |->
        [i \in 0 .. Len(CONV_POLYNOMIALS) - 1 |->
            popcount(BitAnd(fullState, CONV_POLYNOMIALS[i + 1])) % 2]]

\* the polynomial indices i (0-based, ascending) the pattern keeps:
\* puncture[i % puncture.length] is truthy
KeptIdx(puncture) ==
    LET keep(i) == puncture[(i % Len(puncture)) + 1] # 0
        RECURSIVE from(_)
        from(i) == IF i >= Len(CONV_POLYNOMIALS) THEN <<>>
                   ELSE IF keep(i) THEN <<i>> \o from(i + 1)
                   ELSE from(i + 1)
    IN from(0)

\* the parity bits one register word emits, in polynomial order
EmitBits(fullState, puncture) ==
    LET kept == KeptIdx(puncture)
    IN [j \in 1 .. Len(kept) |-> ParityTable[fullState][kept[j]]]

\* popcount of the pattern: puncture.filter((p) => p).length
BitsPerInput(puncture) == Cardinality({i \in 1 .. Len(puncture) : puncture[i] # 0})

\* state = ((state >> 1) | (bit << (K - 2))) & (CONV_STATES - 1)
NextConvState(state, bit) ==
    BitOr(state \div 2, bit * Pow2(ConvK - 2)) % CONV_STATES

\* first loop of convEncode: for each input bit, the kept parity bits of
\* the register word (bit << 6) | state, then the shift
ConvData(bits, puncture) ==
    FoldRange(LAMBDA a, k :
                  [state |-> NextConvState(a.state, bits[k]),
                   output |-> a.output
                              \o EmitBits(BitOr(bits[k] * Pow2(ConvK - 1), a.state),
                                          puncture)],
              [state |-> 0, output |-> <<>>], 1, Len(bits))

\* a plausible slip: one flush step too few
ConvTailShort(acc, puncture) ==
    FoldRange(LAMBDA a, t :
                  [state |-> (a.state \div 2) % CONV_STATES,
                   output |-> a.output \o EmitBits(a.state, puncture)],
              acc, 0, ConvK - 3)

\* second loop of convEncode: K - 1 zero bits flush the register
ConvTail(acc, puncture) ==
    FoldRange(LAMBDA a, t :
                  [state |-> (a.state \div 2) % CONV_STATES,
                   output |-> a.output \o EmitBits(a.state, puncture)],
              acc, 0, ConvK - 2)

\* the encoder's final register and output
ConvRun(bits, puncture) == ConvTail(ConvData(bits, puncture), puncture)

convEncode(bits, puncture) == ConvRun(bits, puncture).output

---------------------------------------------------------------------------
(* drmFec.ts: hard-decision Viterbi decoder.  Path metrics and traceback   *)
(* rows are sequences holding state s at position s + 1.                   *)

\* rxBits[rxOffset] ?? 0 (rxOffset 0-based)
RxAt(rxBits, rxOffset) ==
    IF rxOffset + 1 <= Len(rxBits) THEN rxBits[rxOffset + 1] ELSE 0

\* pm[s] plus the Hamming distance between the kept parity bits of
\* (state s, input bit) and the received group that starts at rxIdx
BranchMetric(pmS, s, bit, rxBits, rxIdx, kept) ==
    LET fullState == BitOr(bit * Pow2(ConvK - 1), s)
    IN pmS + Cardinality({j \in 1 .. Len(kept) :
                ParityTable[fullState][kept[j]] # RxAt(rxBits, rxIdx + j - 1)})

\* the body of the loops over s and bit: branch number b = 2 * s + bit
ViterbiBranch(acc, pm, b, rxBits, rxIdx, kept) ==
    LET s == b \div 2
        bit == b % 2
    IN IF pm[s + 1] >= MAX_PM THEN acc
       ELSE CHOOSE r \in
              {IF mn[1] < acc.newPm[mn[2] + 1]
               THEN [newPm |-> [acc.newPm EXCEPT ![mn[2] + 1] = mn[1]],
                     tb |-> [acc.tb EXCEPT ![mn[2] + 1] = s]]
               ELSE acc :
                  mn \in {<<BranchMetric(pm[s + 1], s, bit, rxBits, rxIdx, kept),
                            NextConvState(s, bit)>>}} : TRUE

\* one trellis step: newPm starts at MAX_PM and tb at -1 everywhere
ViterbiStep(pm, rxBits, rxIdx, kept) ==
    FoldRange(LAMBDA acc, b : ViterbiBranch(acc, pm, b, rxBits, rxIdx, kept),
              [newPm |-> MakeSeq(CONV_STATES, LAMBDA i : MAX_PM),
               tb |-> MakeSeq(CONV_STATES, LAMBDA i : -1)],
              0, 2 * CONV_STATES - 1)

\* pm = new Float64Array(numStates).fill(MAX_PM); pm[0] = 0
InitialPm == MakeSeq(CONV_STATES, LAMBDA i : IF i = 1 THEN 0 ELSE MAX_PM)

\* the forward pass: numInputBits steps, each pushing its tb row
ViterbiForward(rxBits, puncture, numInputBits) ==
    FoldRange(LAMBDA a, step :
                  CHOOSE r \in
                      {[pm |-> st.newPm, traceback |-> Append(a.traceback, st.tb)] :
                          st \in {ViterbiStep(a.pm, rxBits,
                                              step * BitsPerInput(puncture),
                                              KeptIdx(puncture))}} : TRUE,
              [pm |-> InitialPm, traceback |-> <<>>], 0, numInputBits - 1)

\* a plausible slip: ties go to the largest index
BestStateLast(pm) ==
    FoldRange(LAMBDA best, s : IF pm[s + 1] <= pm[best + 1] THEN s ELSE best,
              0, 1, CONV_STATES - 1)

\* best final state: the smallest index among the minimum metrics
BestState(pm) ==
    FoldRange(LAMBDA best, s : IF pm[s + 1] < pm[best + 1] THEN s ELSE best,
              0, 1, CONV_STATES - 1)

\* a plausible slip: the register's low bit instead of its newest bit
DecodedBitLow(state) == state % 2

\* decoded.unshift((state >> (K - 2)) & 1)
DecodedBit(state) == (state \div Pow2(ConvK - 2)) % 2

\* walk the traceback table from the last step to the first; a row
\* without a predecessor gives bit 0 and restarts from state 0
Traceback(traceback, best) ==
    FoldRange(LAMBDA a, i :
                  LET step == Len(traceback) + 1 - i
                      prev == traceback[step][a.state + 1]
                  IN IF prev = -1
                     THEN [state |-> 0, decoded |-> <<0>> \o a.decoded]
                     ELSE [state |-> prev,
                           decoded |-> <<DecodedBit(a.state)>> \o a.decoded],
              [state |-> best, decoded |-> <<>>], 1, Len(traceback)).decoded

viterbiDecode(rxBits, puncture) ==
    LET numInputBits == Len(rxBits) \div BitsPerInput(puncture)
    IN CHOOSE r \in
         {SubSeqFrom(decoded, 1, Max(0, Len(decoded) - (ConvK - 1))) :
             decoded \in
                {Traceback(fwd.traceback, BestState(fwd.pm)) :
                    fwd \in {ViterbiForward(rxBits, puncture, numInputBits)}}} : TRUE

---------------------------------------------------------------------------
(* The codec machine: a bit vector is encoded, then decoded.               *)

---------------------------------------------------------------------------
(* drmConstants.ts: carriers                                               *)

K_MIN == -10

K_MAX == 18

NUM_CARRIERS == K_MAX - K_MIN + 1

SYMBOLS_PER_FRAME == 15

FRAMES_PER_SUPERFRAME == 3

\* relative subcarrier indices of the time pilots, in every symbol
TIME_PILOT_CARRIERS == <<-9, -3, 4, 8, 12>>

\* [symbolIndex, carrierIndex] pairs
FREQ_PILOT_CELLS ==
    <<<<0, -9>>, <<0, 8>>, <<5, -3>>, <<5, 12>>, <<10, 4>>, <<14, -9>>, <<14, 8>>>>

FAC_CELLS == <<<<0, -7>>, <<0, 6>>>>

SDC_CELLS == <<<<0, -6>>, <<0, -5>>, <<0, -4>>, <<0, 7>>, <<0, 9>>, <<0, 10>>>>

\* array.includes(x) / array.some(e => e equals x)
Includes(array, x) == \E i \in 1 .. Len(array) : array[i] = x

---------------------------------------------------------------------------
(* drmOfdm.ts and drmDecoder.ts: what a slot holds.  k is a relative       *)
(* subcarrier index, ki = k - K_MIN a carrier index.                       *)

isTimePilot(carrier) == Includes(TIME_PILOT_CARRIERS, carrier)

isFreqPilot(symbolIdx, carrier) == Includes(FREQ_PILOT_CELLS, <<symbolIdx, carrier>>)

isTimePilotCarrier(ki) == Includes(TIME_PILOT_CARRIERS, K_MIN + ki)

\* a plausible slip: the carrier index compared with the table's k
isFACCellByIndex(symIdx, ki) == Includes(FAC_CELLS, <<symIdx, ki>>)

isFACCell(symIdx, ki) == Includes(FAC_CELLS, <<symIdx, K_MIN + ki>>)

\* a plausible slip: the SDC test left out of the decoder's scan
isSDCCellNever(symIdx, ki) == FALSE

isSDCCell(symIdx, ki) == Includes(SDC_CELLS, <<symIdx, K_MIN + ki>>)

\* the three `continue` tests of getMSCSlots
SlotIsSkipped(sym, ki) ==
    isTimePilotCarrier(ki) \/ isFACCell(sym, ki) \/ isSDCCell(sym, ki)

---------------------------------------------------------------------------
(* drmInterleaver.ts: frequency and time interleavers.  A cell is a pair   *)
(* <<re, im>>; permutations are functions on 0-based indices.              *)

ZeroCell == <<0, 0>>

\* Array.from({ length: n }, () => [0, 0])
ZeroCells(n) == MakeSeq(n, LAMBDA i : ZeroCell)

\* Math.ceil(Math.log2(len)) for len >= 1
CeilLog2(len) == CHOOSE b \in 0 .. 31 : Pow2(b) >= len /\ (b = 0 \/ Pow2(b - 1) < len)

\* rev = (rev << 1) | (x & 1); x >>= 1, repeated `bits` times
RECURSIVE BitReverse(_, _)
BitReverse(x, bits) ==
    IF bits = 0 THEN 0
    ELSE (x % 2) * Pow2(bits - 1) + BitReverse(x \div 2, bits - 1)

\* perm[i] = rev % len, stored in a Uint8Array
buildFreqPermutation(len) ==
    [i \in 0 .. len - 1 |-> (BitReverse(i, CeilLog2(len)) % len) % 256]

FREQ_PERM == buildFreqPermutation(NUM_CARRIERS)

\* inv[FREQ_PERM[i]] = i for i = 0 .. NUM_CARRIERS - 1, over a zeroed array
FREQ_PERM_INV ==
    FoldRange(LAMBDA inv, i : [inv EXCEPT ![FREQ_PERM[i]] = i],
              [i \in 0 .. NUM_CARRIERS - 1 |-> 0], 0, NUM_CARRIERS - 1)

\* out[perm[i]] = cells[i] for every i < cells.length.  Beyond the table
\* perm[i] is undefined and the assignment changes no element of out.
\* (Arrays of at least NUM_CARRIERS cells: a shorter one would grow.)
ScatterCells(cells, perm) ==
    FoldRange(LAMBDA out, i :
                  IF i \in DOMAIN perm
                  THEN [out EXCEPT ![perm[i] + 1] = cells[i + 1]]
                  ELSE out,
              ZeroCells(Len(cells)), 0, Len(cells) - 1)

freqInterleave(cells) == ScatterCells(cells, FREQ_PERM)

freqDeinterleave(cells) == ScatterCells(cells, FREQ_PERM_INV)

\* a plausible slip: whole rows only
TimeRowsFloor(n, cols) == n \div cols

\* const rows = Math.ceil(n / cols)
TimeRows(n, cols) == CeilDiv(n, cols)

\* the column-by-column read of timeInterleave: out and idx after the loops
TimeInterleaveFill(cells, cols) ==
    LET n == Len(cells)
        rows == TimeRows(n, cols)
    IN FoldRange(LAMBDA a, k :
                     LET src == (k % rows) * cols + (k \div rows)
                     IN IF src < n
                        THEN [out |-> [a.out EXCEPT ![a.idx + 1] = cells[src + 1]],
                              idx |-> a.idx + 1]
                        ELSE a,
                 [out |-> ZeroCells(n), idx |-> 0], 0, cols * rows - 1)

\* ... followed by `while (idx < n) out[idx++] = [0, 0]`
timeInterleave(cells, cols) ==
    LET filled == TimeInterleaveFill(cells, cols)
    IN FoldRange(LAMBDA out, i : [out EXCEPT ![i + 1] = ZeroCell],
                 filled.out, filled.idx, Len(cells) - 1)

timeDeinterleave(cells, cols) ==
    LET n == Len(cells)
        rows == TimeRows(n, cols)
    IN FoldRange(LAMBDA a, k :
                     LET dst == (k % rows) * cols + (k \div rows)
                     IN IF dst < n /\ a.idx < n
                        THEN [out |-> [a.out EXCEPT ![dst + 1] = cells[a.idx + 1]],
                              idx |-> a.idx + 1]
                        ELSE a,
                 [out |-> ZeroCells(n), idx |-> 0], 0, cols * rows - 1).out

\* default value of the `cols` parameter
TIME_COLS == 30

---------------------------------------------------------------------------
(* scripts/generate-gallery-samples.mjs and its verifier: the group-wise   *)
(* frequency interleaver                                                   *)

\* perm.push(rev) for every rev < n not used yet, i = 0, 1, ...
buildBijectiveFreqPermutation(n) ==
    LET bits == CeilLog2(Max(n, 2))
        list == FoldRange(LAMBDA perm, i :
                              LET rev == BitReverse(i, bits)
                              IN IF Len(perm) < n /\ rev < n
                                    /\ \A j \in 1 .. Len(perm) : perm[j] # rev
                                 THEN Append(perm, rev)
                                 ELSE perm,
                          <<>>, 0, Pow2(bits) - 1)
    IN [i \in 0 .. n - 1 |-> list[i + 1]]

\* inv[perm[i]] = i
buildInverse(perm) ==
    [j \in DOMAIN perm |-> CHOOSE i \in DOMAIN perm : perm[i] = j]

FREQ_PERM_16 == buildBijectiveFreqPermutation(16)

FREQ_PERM_24 == buildBijectiveFreqPermutation(24)

\* [16, ...new Array(14).fill(24)]
FREQ_GROUP_SIZES == <<16>> \o [i \in 1 .. 14 |-> 24]

\* offset of group sym (1-based) in the flat array
GroupOffset(sym) ==
    FoldRange(LAMBDA off, g : off + FREQ_GROUP_SIZES[g], 0, 1, sym - 1)

\* out starts as a copy of cells; out[offset + perm[i]] = group[i].
\* A slice that runs past the end of cells yields undefined entries,
\* which an array shorter than 352 cells would store; the model is
\* used on 352-cell arrays only.
GroupScatter(cells, perm16, perm24) ==
    FoldRange(LAMBDA out, sym :
                  LET perm == IF sym = 1 THEN perm16 ELSE perm24
                      offset == GroupOffset(sym)
                  IN FoldRange(LAMBDA o, i :
                                   [o EXCEPT ![offset + perm[i] + 1] =
                                                 cells[offset + i + 1]],
                               out, 0, FREQ_GROUP_SIZES[sym] - 1),
              cells, 1, Len(FREQ_GROUP_SIZES))

freqInterleaveGrouped(cells) == GroupScatter(cells, FREQ_PERM_16, FREQ_PERM_24)

freqDeinterleaveGrouped(cells) ==
    GroupScatter(cells, buildInverse(FREQ_PERM_16), buildInverse(FREQ_PERM_24))

---------------------------------------------------------------------------
(* drmFec.ts: CRCs and bit packing.  A byte array is a sequence of         *)
(* numbers 0 .. 255.  A function that returns `T | null` returns Null or   *)
(* Some(value) here.                                                       *)

Null == <<>>

Some(v) == <<v>>

\* crc = crc & 0x80 ? ((crc << 1) ^ POLY) & 0xff : (crc << 1) & 0xff
Crc8Shift(crc) ==
    IF crc >= 128 THEN BitXor((crc * 2) % 256, 213) ELSE (crc * 2) % 256

\* poly 0xD5, initial value 0xFF, result XOR 0xFF
crc8(data) ==
    BitXor(FoldRange(LAMBDA crc, i :
                         FoldRange(LAMBDA c, k : Crc8Shift(c),
                                   BitXor(crc, data[i]), 1, 8),
                     255, 1, Len(data)),
           255)

\* crc = crc & 0x8000 ? ((crc << 1) ^ POLY) & 0xffff : (crc << 1) & 0xffff
Crc16Shift(crc) ==
    IF crc >= 32768 THEN BitXor((crc * 2) % 65536, 4129) ELSE (crc * 2) % 65536

\* poly 0x1021, initial value 0xFFFF, no final XOR
crc16(data) ==
    FoldRange(LAMBDA crc, i :
                  FoldRange(LAMBDA c, k : Crc16Shift(c),
                            BitXor(crc, data[i] * 256), 1, 8),
              65535, 1, Len(data))

\* bytes[i >> 3] |= 1 << (7 - (i & 7)) for every truthy bits[i]
packBits(bits) ==
    MakeSeq(CeilDiv(Len(bits), 8),
            LAMBDA j :
                FoldRange(LAMBDA byte, k :
                              IF 8 * (j - 1) + k + 1 <= Len(bits)
                                 /\ bits[8 * (j - 1) + k + 1] # 0
                              THEN byte + Pow2(7 - k)
                              ELSE byte,
                          0, 0, 7))

\* (bytes[i >> 3] >> (7 - (i & 7))) & 1 for i < numBits; a byte past the
\* end reads as undefined and gives bit 0
unpackBits(bytes, numBits) ==
    MakeSeq(numBits,
            LAMBDA i :
                IF (i - 1) \div 8 + 1 <= Len(bytes)
                THEN (bytes[(i - 1) \div 8 + 1] \div Pow2(7 - ((i - 1) % 8))) % 2
                ELSE 0)

\* unpackBits(bytes) without numBits
unpackAllBits(bytes) == unpackBits(bytes, 8 * Len(bytes))

---------------------------------------------------------------------------
(* drmFramer.ts: FAC                                                       *)

FAC_BITS == 72

\* the 64 data bits encodeFAC sets: Mode B, SO_0, short interleaver,
\* 16-QAM MSC, 4-QAM SDC, 1 service, data service, service id 1
FacDataBits ==
    [i \in 1 .. 64 |-> IF i - 1 \in {1, 7, 8, 11, 14, 27} THEN 1 ELSE 0]

encodeFAC ==
    FacDataBits \o unpackBits(<<crc8(packBits(FacDataBits))>>, 8)

\* a plausible slip: `> 3` for `>= 3`
MscQamStrict(mscMode) == IF mscMode > 3 THEN 16 ELSE 4

\* const mscQam = mscMode >= 3 ? 16 : 4
MscQam(mscMode) == IF mscMode >= 3 THEN 16 ELSE 4

\* the fields decodeFAC reads from CRC-checked data bits (0-based bit i
\* is dataBits[i + 1])
FacFields(dataBits) ==
    [mode |-> <<"A", "B", "C", "D">>[2 * dataBits[1] + dataBits[2] + 1],
     specOccupancy |-> "SO_" \o ToString(4 * dataBits[3] + 2 * dataBits[4] + dataBits[5]),
     mscQam |-> MscQam(4 * dataBits[7] + 2 * dataBits[8] + dataBits[9]),
     interleaveDepth |-> IF dataBits[6] = 0 THEN 1 ELSE 6,
     numServices |-> 2 * dataBits[13] + dataBits[14] + 1,
     serviceType |-> dataBits[15]]

decodeFAC(bits) ==
    IF Len(bits) < FAC_BITS THEN Null
    ELSE IF unpackBits(<<crc8(packBits(SubSeq(bits, 1, 64)))>>, 8) # SubSeq(bits, 65, 72)
         THEN Null
         ELSE Some(FacFields(SubSeq(bits, 1, 64)))

---------------------------------------------------------------------------
(* drmFramer.ts: SDC.  A string is the sequence of its UTF-16 code units.  *)

\* TextEncoder.encode, for units outside the surrogate range
utf8Encode(units) ==
    FoldRange(LAMBDA out, i :
                  LET u == units[i]
                  IN IF u < 128 THEN Append(out, u)
                     ELSE IF u < 2048
                          THEN out \o <<192 + (u \div 64), 128 + (u % 64)>>
                          ELSE out \o <<224 + (u \div 4096), 128 + ((u \div 64) % 64),
                                        128 + (u % 64)>>,
              <<>>, 1, Len(units))

\* TextDecoder.decode: one-, two- and three-byte forms; anything else is
\* replaced by U+FFFD; a leading U+FEFF is dropped
utf8Decode(bytes) ==
    LET Bad == 65533
        step(a, b) ==
            IF a.need = 0
            THEN IF b < 128 THEN [a EXCEPT !.out = Append(a.out, b)]
                 ELSE IF b >= 194 /\ b < 224 THEN [a EXCEPT !.need = 1, !.cp = b - 192]
                 ELSE IF b >= 224 /\ b < 240 THEN [a EXCEPT !.need = 2, !.cp = b - 224]
                 ELSE [a EXCEPT !.out = Append(a.out, Bad)]
            ELSE IF b >= 128 /\ b < 192
                 THEN IF a.need = 1
                      THEN [need |-> 0, cp |-> 0,
                            out |-> Append(a.out, a.cp * 64 + (b - 128))]
                      ELSE [a EXCEPT !.need = a.need - 1, !.cp = a.cp * 64 + (b - 128)]
                 ELSE [need |-> 0, cp |-> 0,
                       out |-> IF b < 128 THEN a.out \o <<Bad, b>>
                               ELSE a.out \o <<Bad, Bad>>]
        final == FoldRange(LAMBDA a, i : step(a, bytes[i]),
                           [need |-> 0, cp |-> 0, out |-> <<>>], 1, Len(bytes))
        units == IF final.need > 0 THEN Append(final.out, Bad) ELSE final.out
    IN IF Len(units) > 0 /\ units[1] = 65279 THEN Tail(units) ELSE units

\* 24-bit field
SDC_MAX_PAYLOAD_BYTES == 16777215

\* mimeType.slice(0, 32)
SDC_MIME_MAX == 32

\* a plausible slip: the top byte of the length left at 0
SdcLengthTopZero(clampedLen) == 0

\* sdc[0] = (clampedLen >> 16) & 0xff
SdcLengthTop(clampedLen) == (clampedLen \div 65536) % 256

\* "image/jpeg", the default of encodeSDC's mimeType parameter
ImageJpeg == <<105, 109, 97, 103, 101, 47, 106, 112, 101, 103>>

encodeSDC(payloadBytes, mimeType) ==
    LET mimeBytes == utf8Encode(SubSeqFrom(mimeType, 1, Min(SDC_MIME_MAX, Len(mimeType))))
        clampedLen == Min(payloadBytes, SDC_MAX_PAYLOAD_BYTES)
        sdc == <<SdcLengthTop(clampedLen), (clampedLen \div 256) % 256, clampedLen % 256>>
                   \o mimeBytes \o <<0>>
    IN CHOOSE r \in {sdc \o <<(crc \div 256) % 256, (crc % 256)>> : crc \in {crc16(sdc)}} : TRUE

\* index (1-based) of the first 0 byte of payload at or after `from`, or
\* Len(payload) + 1
NulIndex(payload, from) ==
    IF \E i \in from .. Len(payload) : payload[i] = 0
    THEN CHOOSE i \in from .. Len(payload) :
             payload[i] = 0 /\ \A j \in from .. i - 1 : payload[j] # 0
    ELSE Len(payload) + 1

decodeSDC(data) ==
    IF Len(data) < 5 THEN Null
    ELSE LET payload == SubSeq(data, 1, Len(data) - 2)
             receivedCrc == data[Len(data) - 1] * 256 + data[Len(data)]
         IN IF crc16(payload) # receivedCrc THEN Null
            ELSE Some([payloadBytes |-> payload[1] * 65536 + payload[2] * 256 + payload[3],
                       mimeType |-> utf8Decode(SubSeqFrom(payload, 4,
                                                          NulIndex(payload, 4) - 1))])

---------------------------------------------------------------------------
(* drmFramer.ts: MSC segments.  A segment is a record with the fields of   *)
(* MSCSegment.                                                             *)

MSC_SEGMENT_BYTES == 800

MSC_SEGMENT_HEADER_BYTES == 4

\* const maxPayload = MSC_SEGMENT_BYTES - MSC_SEGMENT_HEADER_BYTES
MaxPayload == MSC_SEGMENT_BYTES - MSC_SEGMENT_HEADER_BYTES

\* [segNo hi, segNo lo, totalSegs hi, totalSegs lo]
SegmentHeader(segNo, totalSegments) ==
    <<(segNo \div 256) % 256, segNo % 256,
      (totalSegments \div 256) % 256, totalSegments % 256>>

\* CRC-16 of header + data
SegmentCrc(segNo, totalSegments, data) ==
    crc16(SegmentHeader(segNo, totalSegments) \o data)

\* a plausible slip: whole segments only
SegmentCountFloor(totalBytes) == Max(1, totalBytes \div MaxPayload)

\* a segment count without the floor of one segment
SegmentCountNoFloor(totalBytes) == CeilDiv(totalBytes, MaxPayload)

\* Math.max(1, Math.ceil(totalBytes / maxPayload))
SegmentCount(totalBytes) == Max(1, CeilDiv(totalBytes, MaxPayload))

segmentMSC(fileData) ==
    LET totalBytes == Len(fileData)
        totalSegments == SegmentCount(totalBytes)
    IN MakeSeq(totalSegments,
               LAMBDA n :
                   LET i == n - 1
                       start == i * MaxPayload
                       end == Min(start + MaxPayload, totalBytes)
                       data == SubSeqFrom(fileData, start + 1, end)
                   IN [segNo |-> i,
                       totalSegments |-> totalSegments,
                       isLast |-> (i = totalSegments - 1),
                       data |-> data,
                       crc |-> SegmentCrc(i, totalSegments, data)])

\* the Map of reassembleMSC: for each segNo, the index of the first
\* segment with that number whose CRC matches
SegmentMap(segments) ==
    FoldRange(LAMBDA map, j :
                  LET seg == segments[j]
                  IN IF SegmentCrc(seg.segNo, seg.totalSegments, seg.data) # seg.crc
                     THEN map
                     ELSE IF seg.segNo \in DOMAIN map THEN map
                     ELSE [k \in DOMAIN map \cup {seg.segNo} |->
                              IF k = seg.segNo THEN j ELSE map[k]],
              [k \in {} |-> 0], 1, Len(segments))

\* expectedTotal is Null when the argument is left out
reassembleMSC(segments, expectedTotal) ==
    IF Len(segments) = 0 THEN Null
    ELSE LET total == IF expectedTotal = Null THEN segments[1].totalSegments
                      ELSE expectedTotal[1]
             map == SegmentMap(segments)
             present == {i \in 0 .. total - 1 : i \in DOMAIN map}
         IN IF Cardinality(DOMAIN map) < total THEN Null
            ELSE IF Cardinality(present) < total THEN Null
            ELSE Some(FoldRange(LAMBDA result, i : result \o segments[map[i]].data,
                                <<>>, 0, total - 1))

\* a plausible slip: the CRC written low byte first
serialiseSegmentCrcSwapped(seg) ==
    SegmentHeader(seg.segNo, seg.totalSegments) \o seg.data
        \o <<(seg.crc % 256), (seg.crc \div 256) % 256>>

\* [header (4 bytes)] [data] [CRC hi] [CRC lo]
serialiseSegment(seg) ==
    SegmentHeader(seg.segNo, seg.totalSegments) \o seg.data
        \o <<(seg.crc \div 256) % 256, (seg.crc % 256)>>

\* the loop of deserialiseSegments from byte position pos (0-based)
RECURSIVE DeserialiseFrom(_, _)
DeserialiseFrom(data, pos) ==
    IF pos + MSC_SEGMENT_HEADER_BYTES + 2 > Len(data) THEN <<>>
    ELSE LET segNo == data[pos + 1] * 256 + data[pos + 2]
             totalSegments == data[pos + 3] * 256 + data[pos + 4]
             dataPos == pos + MSC_SEGMENT_HEADER_BYTES
             dataLen == Min(MaxPayload, Len(data) - dataPos - 2)
         IN IF dataLen <= 0 THEN <<>>
            ELSE <<[segNo |-> segNo,
                    totalSegments |-> totalSegments,
                    isLast |-> (segNo = totalSegments - 1),
                    data |-> SubSeq(data, dataPos + 1, dataPos + dataLen),
                    crc |-> data[dataPos + dataLen + 1] * 256
                            + data[dataPos + dataLen + 2]]>>
                 \o DeserialiseFrom(data, dataPos + dataLen + 2)

deserialiseSegments(data) == DeserialiseFrom(data, 0)

---------------------------------------------------------------------------
(* drmConstants.ts: constellations.  Cell values are integers in units of  *)
(* 1 / (CellUnit * sqrt(10)): a 16-QAM level v is CellUnit * v exactly;    *)
(* the 4-QAM level 1/sqrt(2) and the pilot value sqrt(2) are rounded,      *)
(* which changes no decision, 4-QAM cells being demapped by sign and       *)
(* pilot slots never being demapped.                                       *)

CellUnit == 1000

\* 1/sqrt(2) = sqrt(5) units of 1/sqrt(10)
Qam4Level == 2236

\* PILOT_BOOST = sqrt(2) = sqrt(20) units of 1/sqrt(10)
PilotLevel == 4472

\* [+1, +1], [-1, +1], [-1, -1], [+1, -1], each divided by sqrt(2)
QAM4_CONSTELLATION ==
    [s \in 0 .. 3 |->
        <<<<Qam4Level, Qam4Level>>, <<-Qam4Level, Qam4Level>>,
          <<-Qam4Level, -Qam4Level>>, <<Qam4Level, -Qam4Level>>>>[s + 1]]

\* pts[(grayRow[row] << 2) | grayCol[col]] = [vals[col], vals[row]] * scale
QAM16_CONSTELLATION ==
    LET vals == <<-3, -1, 1, 3>>
        gray == <<0, 1, 3, 2>>
    IN FoldRange(LAMBDA pts, n :
                     [pts EXCEPT ![4 * gray[n \div 4 + 1] + gray[(n % 4) + 1]] =
                                    <<CellUnit * vals[(n % 4) + 1],
                                      CellUnit * vals[n \div 4 + 1]>>],
                 [sym \in 0 .. 15 |-> ZeroCell], 0, 15)

---------------------------------------------------------------------------
(* drmEncoder.ts and drmOfdm.ts: mapping and demapping                     *)

\* a plausible slip: the symbol index built LSB first
map16QAMLsbFirst(bits) ==
    QAM16_CONSTELLATION[(bits[1] + 2 * bits[2] + 4 * bits[3] + 8 * bits[4]) % 16]

\* sym = (bits[0] << 3) | (bits[1] << 2) | (bits[2] << 1) | bits[3]
map16QAM(bits) ==
    QAM16_CONSTELLATION[(8 * bits[1] + 4 * bits[2] + 2 * bits[3] + bits[4]) % 16]

\* sym = (bits[0] << 1) | bits[1]
map4QAM(bits) == QAM4_CONSTELLATION[(2 * bits[1] + bits[2]) % 4]

\* the first constellation point at the least squared distance
demap16QAM(re, im) ==
    LET dist(sym) == (re - QAM16_CONSTELLATION[sym][1]) ^ 2
                         + (im - QAM16_CONSTELLATION[sym][2]) ^ 2
        bestSym == FoldRange(LAMBDA best, sym :
                                 IF dist(sym) < dist(best) THEN sym ELSE best,
                             0, 1, 15)
    IN <<(bestSym \div 8) % 2, (bestSym \div 4) % 2, (bestSym \div 2) % 2, bestSym % 2>>

\* i = re >= 0 ? 1 : 0; q = im >= 0 ? 1 : 0; return [i ^ q, q]
demap4QAM(re, im) ==
    LET i == IF re >= 0 THEN 1 ELSE 0
        q == IF im >= 0 THEN 1 ELSE 0
    IN <<(i + q) % 2, q>>

---------------------------------------------------------------------------
(* drmEncoder.ts: DRMEncoder.encodeImage from the JPEG bytes on            *)

\* getMSCSlots of the encoder: symbol-major, carrier-ascending, skipping
\* time-pilot carriers, FAC cells and SDC cells
EncoderMscSlots ==
    FoldRange(LAMBDA slots, n :
                  LET sym == n \div NUM_CARRIERS
                      ki == n % NUM_CARRIERS
                      k == K_MIN + ki
                  IN IF Includes(TIME_PILOT_CARRIERS, k)
                        \/ Includes(FAC_CELLS, <<sym, k>>)
                        \/ Includes(SDC_CELLS, <<sym, k>>)
                     THEN slots
                     ELSE Append(slots, [sym |-> sym, ki |-> ki]),
              <<>>, 0, SYMBOLS_PER_FRAME * NUM_CARRIERS - 1)

\* getMSCSlots of the decoder
DecoderMscSlots ==
    FoldRange(LAMBDA slots, n :
                  IF SlotIsSkipped(n \div NUM_CARRIERS, n % NUM_CARRIERS) THEN slots
                  ELSE Append(slots, [sym |-> n \div NUM_CARRIERS,
                                      ki |-> n % NUM_CARRIERS]),
              <<>>, 0, SYMBOLS_PER_FRAME * NUM_CARRIERS - 1)

\* 16-QAM = 4 bits/cell
MSC_BITS_PER_FRAME == Len(EncoderMscSlots) * 4

\* array.slice(from, to) with 0-based bounds, clipped to the array
Slice(array, from, to) == SubSeqFrom(array, from + 1, Min(to, Len(array)))

\* steps 2 to 7: the padded MSC bit stream, the FAC bits and the SDC bits
EncoderPlan(jpegBytes) ==
    LET segments == segmentMSC(jpegBytes)
        payload == FoldRange(LAMBDA bytes, j : bytes \o serialiseSegment(segments[j]),
                             <<>>, 1, Len(segments))
        encodedMSC == convEncode(unpackAllBits(payload), PUNCTURE_MSC)
        bitsPerSuperframe == MSC_BITS_PER_FRAME * FRAMES_PER_SUPERFRAME
        numSuperframes == CeilDiv(Len(encodedMSC), bitsPerSuperframe)
    IN [numSuperframes |-> numSuperframes,
        paddedMSC |-> encodedMSC
                      \o MakeSeq(numSuperframes * bitsPerSuperframe - Len(encodedMSC),
                                 LAMBDA i : 0),
        facBits |-> encodeFAC,
        sdcBits |-> unpackAllBits(encodeSDC(Len(jpegBytes), ImageJpeg))]

\* a plausible slip: the offset counted in cells, not in bits
ControlOffsetInCells(frameNo, perFrame, length) ==
    (frameNo * (perFrame \div 2)) % length

\* facBitOffset, sdcBitOffset: (frameNo * bitsPerFrame) % bits.length
ControlOffset(frameNo, perFrame, length) == (frameNo * perFrame) % length

\* the FAC or the SDC cells of frame frameNo: each cell the 4-QAM point
\* of the next two bits, or of [0, 0] when the slice is short
ControlCells(cells, bits, perFrame, frameNo) ==
    MakeSeq(Len(cells),
            LAMBDA n :
                LET offset == ControlOffset(frameNo, perFrame, Len(bits))
                    bits2 == Slice(bits, offset + (n - 1) * 2, offset + (n - 1) * 2 + 2)
                    point == map4QAM(IF Len(bits2) = 2 THEN bits2 ELSE <<0, 0>>)
                IN [symbolIdx |-> cells[n][1], carrierIdx |-> cells[n][2] - K_MIN,
                    re |-> point[1], im |-> point[2]])

\* the body of the frame loop up to the call of ofdmModulate: the list
\* of OFDM data cells of frame frameNo
FrameDataCells(plan, frameNo) ==
    LET mscFrameBits == Slice(plan.paddedMSC, frameNo * MSC_BITS_PER_FRAME,
                              (frameNo + 1) * MSC_BITS_PER_FRAME)
        mscCells == MakeSeq(Len(EncoderMscSlots),
                            LAMBDA n :
                                LET bits4 == Slice(mscFrameBits, (n - 1) * 4, (n - 1) * 4 + 4)
                                IN map16QAM(IF Len(bits4) = 4 THEN bits4
                                            ELSE <<0, 0, 0, 0>>))
        interleavedCells == timeInterleave(freqInterleave(mscCells), TIME_COLS)
        control(cells, bits, perFrame) == ControlCells(cells, bits, perFrame, frameNo)
    IN MakeSeq(Min(Len(EncoderMscSlots), Len(interleavedCells)),
               LAMBDA ci : [symbolIdx |-> EncoderMscSlots[ci].sym,
                            carrierIdx |-> EncoderMscSlots[ci].ki,
                            re |-> interleavedCells[ci][1],
                            im |-> interleavedCells[ci][2]])
         \o control(FAC_CELLS, plan.facBits, Len(FAC_CELLS) * 2)
         \o control(SDC_CELLS, plan.sdcBits, Len(SDC_CELLS) * 2)

---------------------------------------------------------------------------
(* drmOfdm.ts: the frame on the air.  A frame is the grid of the cells     *)
(* its 15 symbols carry on the 29 active carriers; the grid stands for     *)
(* the 4800 samples ofdmModulate makes of it.                              *)

\* what ofdmModulate puts on every (symbol, carrier): the pilot value on
\* pilot slots, else the last data cell given for the slot, else 0
ofdmModulate(dataCells) ==
    LET cellMaps ==
            FoldRange(LAMBDA maps, n :
                          LET cell == dataCells[n]
                          IN IF cell.symbolIdx < 0 \/ cell.symbolIdx >= SYMBOLS_PER_FRAME
                                \/ cell.carrierIdx \notin 0 .. NUM_CARRIERS - 1
                             THEN maps
                             ELSE [maps EXCEPT ![cell.symbolIdx + 1][cell.carrierIdx + 1] =
                                                  <<cell.re, cell.im>>],
                      MakeSeq(SYMBOLS_PER_FRAME, LAMBDA i : ZeroCells(NUM_CARRIERS)),
                      1, Len(dataCells))
    IN MakeSeq(SYMBOLS_PER_FRAME,
               LAMBDA symN :
                   MakeSeq(NUM_CARRIERS,
                           LAMBDA kiN :
                               IF isTimePilot(K_MIN + kiN - 1)
                                  \/ isFreqPilot(symN - 1, K_MIN + kiN - 1)
                               THEN <<PilotLevel, 0>>
                               ELSE cellMaps[symN][kiN]))

\* ofdmDemodulate, estimateChannel and equalise of a frame received over
\* a clean channel: every cell as sent, up to an error far below the
\* distance between constellation points; `noise` is that error, a pair
\* of values in {-1, 0, 1}
EqualisedFrame(grid, noise) ==
    MakeSeq(Len(grid),
            LAMBDA symN :
                MakeSeq(Len(grid[symN]),
                        LAMBDA kiN : <<grid[symN][kiN][1] + noise[1],
                                       grid[symN][kiN][2] + noise[2]>>))

---------------------------------------------------------------------------
(* drmDecoder.ts: DRMDecoder.decodeSamples                                 *)

\* the bits demap4QAM reads from the FAC or the SDC cells of a frame
ControlBits(eqSymbols, cells) ==
    FoldRange(LAMBDA bits, n :
                  bits \o demap4QAM(eqSymbols[cells[n][1] + 1][cells[n][2] - K_MIN + 1][1],
                                    eqSymbols[cells[n][1] + 1][cells[n][2] - K_MIN + 1][2]),
              <<>>, 1, Len(cells))

\* the body of the frame loop: the MSC, FAC and SDC bits of one frame
FrameBits(eqSymbols) ==
    LET mscCells == MakeSeq(Len(DecoderMscSlots),
                            LAMBDA n : eqSymbols[DecoderMscSlots[n].sym + 1]
                                                [DecoderMscSlots[n].ki + 1])
        deinterleavedCells == freqDeinterleave(timeDeinterleave(mscCells, TIME_COLS))
        control(cells) == ControlBits(eqSymbols, cells)
    IN [msc |-> FoldRange(LAMBDA bits, n :
                              bits \o demap16QAM(deinterleavedCells[n][1],
                                                 deinterleavedCells[n][2]),
                          <<>>, 1, Len(deinterleavedCells)),
        fac |-> control(FAC_CELLS),
        sdc |-> control(SDC_CELLS)]

\* segments.length - (reassembled ? segments.length : 0)
SegmentErrors(segments, reassembled) ==
    Len(segments) - (IF reassembled # Null THEN Len(segments) ELSE 0)

\* what follows the frame loop: FAC, SDC, Viterbi, segments, reassembly
DecodeResult(allMSCBits, allFACBits, allSDCBits, framesDecoded) ==
    LET facParams == decodeFAC(Slice(allFACBits, 0, 72))
        sdcParams == decodeSDC(packBits(allSDCBits))
        decodedBytes == packBits(viterbiDecode(allMSCBits, PUNCTURE_MSC))
        segments == deserialiseSegments(decodedBytes)
        expectedTotal == IF sdcParams = Null THEN Null
                         ELSE Some(CeilDiv(sdcParams[1].payloadBytes, MSC_SEGMENT_BYTES - 4))
    IN CHOOSE r \in
         {[jpegBytes |-> reassembled,
           facParams |-> facParams,
           sdcParams |-> sdcParams,
           framesDecoded |-> framesDecoded,
           segments |-> Len(segments),
           segmentErrors |-> SegmentErrors(segments, reassembled)] :
             reassembled \in {reassembleMSC(segments, expectedTotal)}} : TRUE

---------------------------------------------------------------------------
(* The codec in isolation                                                  *)

MaxFecBits == 7

RECURSIVE BitVectors(_)
BitVectors(n) ==
    IF n = 0 THEN {<<>>}
    ELSE {Append(v, b) : v \in BitVectors(n - 1), b \in {0, 1}}

\* longer vectors, past the constraint length, where all 64 states are live
LongFecBits == 40

MaxFecSeed == 3

PatternBits(n, seed) ==
    MakeSeq(n, LAMBDA i : (((i * i * seed) + (i \div 3) + seed) % 7) % 2)

FecInputs ==
    UNION {BitVectors(n) : n \in 0 .. MaxFecBits}
        \cup {PatternBits(LongFecBits, seed) : seed \in 1 .. MaxFecSeed}

FecInit ==
    /\ fecPc = "input"
    /\ fecIn \in FecInputs
    /\ fecPunct \in PunctureNames
    /\ fecEnc = <<>>
    /\ fecOut = <<>>
    /\ IlvIdle
    /\ FrmIdle
    /\ SlotIdle
    /\ PipeIdle
    /\ SizeIdle
    /\ OfdmIdle
    /\ QamIdle

FecEncode ==
    /\ fecPc = "input"
    /\ fecEnc' = convEncode(fecIn, Puncture(fecPunct))
    /\ fecPc' = "encoded"
    /\ UNCHANGED <<fecIn, fecPunct, fecOut, NotFec>>

FecDecode ==
    /\ fecPc = "encoded"
    /\ fecOut' = viterbiDecode(fecEnc, Puncture(fecPunct))
    /\ fecPc' = "decoded"
    /\ UNCHANGED <<fecIn, fecPunct, fecEnc, NotFec>>

FecNext == FecEncode \/ FecDecode

SpecFec == FecInit /\ [][FecNext]_vars

\* C2: decoding the encoding of any bit vector (the empty one included)
\* under any of the three puncture patterns gives the vector back, same
\* length and same bits, once the 6 tail bits are trimmed.
C2_ViterbiRoundTrip == fecPc = "decoded" => fecOut = fecIn

C2_Witness ==
    /\ fecPc = "decoded"
    /\ fecPunct = "SDC"
    /\ Len(fecIn) = LongFecBits
    /\ \E i \in 1 .. Len(fecIn) : fecIn[i] = 0
    /\ fecOut = fecIn
    /\ \E i \in 1 .. Len(fecIn) : fecIn[i] = 1

\* the number of 1s of a puncture pattern
PatternOnes(puncture) ==
    FoldRange(LAMBDA sum, i : sum + puncture[i], 0, 1, Len(puncture))

\* C17: convEncode(x, P) has exactly (|x| + 6) * popcount(P) bits, and the
\* encoder's register is 0 after the 6 flush steps.
C17_EncodedLength ==
    fecPc \in {"encoded", "decoded"} =>
        /\ Len(fecEnc) = (Len(fecIn) + 6) * PatternOnes(Puncture(fecPunct))
        /\ ConvRun(fecIn, Puncture(fecPunct)).state = 0

C17_Witness ==
    /\ fecPc = "encoded"
    /\ fecPunct = "FAC"
    /\ Len(fecIn) = MaxFecBits
    /\ ConvData(fecIn, PUNCTURE_FAC).state = CONV_STATES - 1
    /\ Len(fecEnc) = (MaxFecBits + 6) * 4

---------------------------------------------------------------------------
(* The interleavers in isolation: an input array, then up to MaxIlvOps     *)
(* operations applied one after the other                                  *)

\* number of MSC cells of one frame (16 + 14 * 24)
N_MSC == 352

\* the test suite's makeCells(n, offset): [i + offset, (i + offset) * 2]
makeCells(n, offset) == MakeSeq(n, LAMBDA i : <<i - 1 + offset, (i - 1 + offset) * 2>>)

\* arrays of 16-QAM-like cells (levels -3, -1, 1, 3), with repetitions
levelCells(n, seed) ==
    MakeSeq(n, LAMBDA i : <<2 * ((i * seed) % 4) - 3, 2 * ((i \div 4 + seed) % 4) - 3>>)

MaxCellOffset == 5

MaxLevelSeed == 3

MaxIlvOps == 2

IlvInputs ==
    {makeCells(N_MSC, offset) : offset \in 0 .. MaxCellOffset}
        \cup {levelCells(N_MSC, seed) : seed \in 1 .. MaxLevelSeed}

IlvInit ==
    /\ ilvIn \in IlvInputs
    /\ ilvCells = ilvIn
    /\ ilvOps = <<>>
    /\ FecIdle
    /\ FrmIdle
    /\ SlotIdle
    /\ PipeIdle
    /\ SizeIdle
    /\ OfdmIdle
    /\ QamIdle

IlvApply(name, result) ==
    /\ Len(ilvOps) < MaxIlvOps
    /\ ilvCells' = result
    /\ ilvOps' = Append(ilvOps, name)
    /\ UNCHANGED <<ilvIn, NotIlv>>

FreqInterleave == IlvApply("freqInterleave", freqInterleave(ilvCells))

FreqDeinterleave == IlvApply("freqDeinterleave", freqDeinterleave(ilvCells))

TimeInterleave == IlvApply("timeInterleave", timeInterleave(ilvCells, TIME_COLS))

TimeDeinterleave == IlvApply("timeDeinterleave", timeDeinterleave(ilvCells, TIME_COLS))

FreqInterleaveGrouped ==
    IlvApply("freqInterleaveGrouped", freqInterleaveGrouped(ilvCells))

FreqDeinterleaveGrouped ==
    IlvApply("freqDeinterleaveGrouped", freqDeinterleaveGrouped(ilvCells))

IlvNext ==
    \/ FreqInterleave
    \/ FreqDeinterleave
    \/ TimeInterleave
    \/ TimeDeinterleave
    \/ FreqInterleaveGrouped
    \/ FreqDeinterleaveGrouped

SpecInterleaver == IlvInit /\ [][IlvNext]_vars

\* number of positions of `cells` that hold `c`
CountCell(cells, c) == Cardinality({i \in 1 .. Len(cells) : cells[i] = c})

\* b holds the cells of a, each as many times as a does
IsRearrangement(a, b) ==
    /\ Len(a) = Len(b)
    /\ \A i \in 1 .. Len(a) : CountCell(b, a[i]) = CountCell(a, a[i])

NoZeroCell(cells) == \A i \in 1 .. Len(cells) : cells[i] # ZeroCell

\* C3: on a 352-cell array, freqDeinterleave after freqInterleave gives the
\* array back, and so does freqInterleave after freqDeinterleave.
C3_FreqMutualInverses ==
    /\ ilvOps = <<"freqInterleave", "freqDeinterleave">> => ilvCells = ilvIn
    /\ ilvOps = <<"freqDeinterleave", "freqInterleave">> => ilvCells = ilvIn

\* C4: on a 352-cell array (30 columns, 12 rows), timeDeinterleave after
\* timeInterleave and timeInterleave after timeDeinterleave give the array
\* back; timeInterleave rearranges the cells (a bijection on the indices)
\* and its padding loop has nothing left to fill.
C4_TimeMutualInverses ==
    /\ ilvOps = <<"timeInterleave", "timeDeinterleave">> => ilvCells = ilvIn
    /\ ilvOps = <<"timeDeinterleave", "timeInterleave">> => ilvCells = ilvIn
    /\ ilvOps = <<"timeInterleave">> =>
          /\ TimeRows(Len(ilvIn), TIME_COLS) = 12
          /\ IsRearrangement(ilvIn, ilvCells)
          /\ TimeInterleaveFill(ilvIn, TIME_COLS).idx = Len(ilvIn)
          /\ NoZeroCell(ilvIn) => NoZeroCell(ilvCells)

C4_Witness ==
    /\ ilvOps = <<"timeInterleave", "timeDeinterleave">>
    /\ ilvIn = makeCells(N_MSC, 1)
    /\ ilvCells = ilvIn
    /\ timeInterleave(ilvIn, TIME_COLS) # ilvIn

\* C5: freqInterleave of a 352-cell array without (0,0) cells has 352
\* cells, none of them (0,0), and holds every input cell exactly once.
C5_FreqRearranges ==
    (ilvOps = <<"freqInterleave">> /\ NoZeroCell(ilvIn)) =>
        /\ Len(ilvCells) = N_MSC
        /\ NoZeroCell(ilvCells)
        /\ IsRearrangement(ilvIn, ilvCells)

\* what the group-wise interleaver of the sample generator does on the
\* same arrays: it rearranges, and its inverse undoes it
GroupedRearranges ==
    /\ ilvOps = <<"freqInterleaveGrouped">> => IsRearrangement(ilvIn, ilvCells)
    /\ ilvOps = <<"freqInterleaveGrouped", "freqDeinterleaveGrouped">> =>
          ilvCells = ilvIn
    /\ ilvOps = <<"freqDeinterleaveGrouped", "freqInterleaveGrouped">> =>
          ilvCells = ilvIn

\* i |-> perm[i] is a bijection on 0 .. n - 1
IsBijection(perm, n) ==
    /\ DOMAIN perm = 0 .. n - 1
    /\ \A i \in 0 .. n - 1 : perm[i] \in 0 .. n - 1
    /\ \A i, j \in 0 .. n - 1 : perm[i] = perm[j] => i = j

\* the cells of MSC group sym (1-based) of a flat 352-cell array
GroupCells(cells, sym) ==
    SubSeq(cells, GroupOffset(sym) + 1, GroupOffset(sym) + FREQ_GROUP_SIZES[sym])

\* every cell of a is in b within its own symbol's group
StaysInGroups(a, b) ==
    \A sym \in 1 .. Len(FREQ_GROUP_SIZES) :
        IsRearrangement(GroupCells(a, sym), GroupCells(b, sym))

\* output[offset + perm[i]] = input[offset + i] in every group
FollowsGroupRule(a, b, perm16, perm24) ==
    \A sym \in 1 .. Len(FREQ_GROUP_SIZES) :
        \A i \in 0 .. FREQ_GROUP_SIZES[sym] - 1 :
            b[GroupOffset(sym) + (IF sym = 1 THEN perm16 ELSE perm24)[i] + 1] =
                a[GroupOffset(sym) + i + 1]

\* the group-wise interleaver of the sample generator: its two tables are
\* bijections, it follows the rule, keeps every cell in its group, and
\* its inverse undoes it
GroupedInterleaverSound ==
    /\ IsBijection(FREQ_PERM_16, 16)
    /\ IsBijection(FREQ_PERM_24, 24)
    /\ ilvOps = <<"freqInterleaveGrouped">> =>
          /\ FollowsGroupRule(ilvIn, ilvCells, FREQ_PERM_16, FREQ_PERM_24)
          /\ StaysInGroups(ilvIn, ilvCells)
    /\ ilvOps = <<"freqInterleaveGrouped", "freqDeinterleaveGrouped">> =>
          ilvCells = ilvIn

\* C24: for n = 16 and n = 24 the frequency permutation table built by
\* bit-reversal enumeration is a bijection on [0, n), and frequency
\* interleaving applies it group by group with output[offset + perm[i]] =
\* input[offset + i], so every cell stays inside its own symbol's MSC
\* group (16 cells, then fourteen groups of 24), and the inverse table
\* undoes it.  Stated of both frequency interleavers of the repository.
C24_GroupwiseBijection ==
    /\ GroupedInterleaverSound
    /\ ilvOps = <<"freqInterleave">> =>
          /\ FollowsGroupRule(ilvIn, ilvCells, FREQ_PERM_16, FREQ_PERM_24)
          /\ StaysInGroups(ilvIn, ilvCells)
    /\ ilvOps = <<"freqInterleave", "freqDeinterleave">> => ilvCells = ilvIn

---------------------------------------------------------------------------
(* The framer in isolation: encode, optionally flip one bit of the         *)
(* encoded form, decode                                                    *)

\* payload lengths reach MaxMscSegments full segments, plus one byte
MaxMscSegments == 2

MaxPayloadSeed == 2

\* a flip is tried on encoded forms of at most this many bits
MaxFlipBits == 136

\* the longest MIME string tried, in characters
MaxMimeLen == 34

PayloadOf(n, seed) == MakeSeq(n, LAMBDA i : (i * (2 * seed + 5) + 171 * seed) % 256)

MscPayloadLengths ==
    {n \in UNION {{k * MaxPayload - 1, k * MaxPayload, k * MaxPayload + 1} :
                     k \in 0 .. MaxMscSegments} : n >= 0} \cup {2, 3}

MscPayloads ==
    {PayloadOf(n, seed) : n \in MscPayloadLengths, seed \in 1 .. MaxPayloadSeed}

\* a-z, '/', '+', '-', '.', and one character outside ASCII (U+00E9)
MimeAlphabet == <<97, 112, 112, 108, 105, 99, 47, 120, 45, 233, 43, 46, 122>>

MimeOf(n) == MakeSeq(n, LAMBDA i : MimeAlphabet[((i * 5) % Len(MimeAlphabet)) + 1])

MimeStrings ==
    {ImageJpeg} \cup {MimeOf(n) : n \in {0, 1, 9} \cup (SDC_MIME_MAX - 1) .. MaxMimeLen}

\* lengths around the byte boundaries of the 24-bit field, and one past it
SdcLengths ==
    {0, 1, 12345} \cup UNION {{Pow2(k) - 1, Pow2(k)} : k \in {8, 16, 24}}

SdcInputs ==
    {[payloadBytes |-> L, mimeType |-> m] : L \in SdcLengths, m \in MimeStrings}

FrmInit ==
    /\ frmPc = "input"
    /\ \/ frmKind = "FAC" /\ frmIn = <<>>
       \/ frmKind = "SDC" /\ frmIn \in SdcInputs
       \/ frmKind = "MSC" /\ frmIn \in MscPayloads
    /\ frmWire = <<>>
    /\ frmFlip = -1
    /\ frmOut = <<>>
    /\ FecIdle
    /\ IlvIdle
    /\ SlotIdle
    /\ PipeIdle
    /\ SizeIdle
    /\ OfdmIdle
    /\ QamIdle

EncodeFAC ==
    /\ frmPc = "input" /\ frmKind = "FAC"
    /\ frmWire' = encodeFAC
    /\ frmPc' = "encoded"
    /\ UNCHANGED <<frmKind, frmIn, frmFlip, frmOut, NotFrm>>

EncodeSDC ==
    /\ frmPc = "input" /\ frmKind = "SDC"
    /\ frmWire' = encodeSDC(frmIn.payloadBytes, frmIn.mimeType)
    /\ frmPc' = "encoded"
    /\ UNCHANGED <<frmKind, frmIn, frmFlip, frmOut, NotFrm>>

SegmentMSC ==
    /\ frmPc = "input" /\ frmKind = "MSC"
    /\ frmWire' = segmentMSC(frmIn)
    /\ frmPc' = "segmented"
    /\ UNCHANGED <<frmKind, frmIn, frmFlip, frmOut, NotFrm>>

\* reassembleMSC(segmentMSC(p))
ReassembleMSC ==
    /\ frmPc = "segmented"
    /\ frmOut' = reassembleMSC(frmWire, Null)
    /\ frmPc' = "reassembled"
    /\ UNCHANGED <<frmKind, frmIn, frmWire, frmFlip, NotFrm>>

\* the encoder's byte stream: every segment serialised, in order
SerialiseMSC ==
    /\ frmPc = "segmented"
    /\ frmWire' = FoldRange(LAMBDA bytes, j : bytes \o serialiseSegment(frmWire[j]),
                            <<>>, 1, Len(frmWire))
    /\ frmPc' = "encoded"
    /\ UNCHANGED <<frmKind, frmIn, frmFlip, frmOut, NotFrm>>

\* the encoded form as bits, and back
WireBits == IF frmKind = "FAC" THEN frmWire ELSE unpackAllBits(frmWire)

FromWireBits(bits) == IF frmKind = "FAC" THEN bits ELSE packBits(bits)

\* one bit of the encoded form is inverted
FlipBit ==
    /\ frmPc = "encoded"
    /\ Len(WireBits) <= MaxFlipBits
    /\ \E b \in 0 .. Len(WireBits) - 1 :
          /\ frmWire' = FromWireBits([WireBits EXCEPT ![b + 1] = 1 - @])
          /\ frmFlip' = b
    /\ frmPc' = "corrupted"
    /\ UNCHANGED <<frmKind, frmIn, frmOut, NotFrm>>

DecodeFAC ==
    /\ frmPc \in {"encoded", "corrupted"} /\ frmKind = "FAC"
    /\ frmOut' = decodeFAC(frmWire)
    /\ frmPc' = "decoded"
    /\ UNCHANGED <<frmKind, frmIn, frmWire, frmFlip, NotFrm>>

DecodeSDC ==
    /\ frmPc \in {"encoded", "corrupted"} /\ frmKind = "SDC"
    /\ frmOut' = decodeSDC(frmWire)
    /\ frmPc' = "decoded"
    /\ UNCHANGED <<frmKind, frmIn, frmWire, frmFlip, NotFrm>>

\* reassembleMSC(deserialiseSegments(bytes))
DecodeMSC ==
    /\ frmPc \in {"encoded", "corrupted"} /\ frmKind = "MSC"
    /\ frmOut' = reassembleMSC(deserialiseSegments(frmWire), Null)
    /\ frmPc' = "decoded"
    /\ UNCHANGED <<frmKind, frmIn, frmWire, frmFlip, NotFrm>>

FrmNext ==
    \/ EncodeFAC
    \/ EncodeSDC
    \/ SegmentMSC
    \/ ReassembleMSC
    \/ SerialiseMSC
    \/ FlipBit
    \/ DecodeFAC
    \/ DecodeSDC
    \/ DecodeMSC

SpecFramer == FrmInit /\ [][FrmNext]_vars

\* C6: reassembling the segments segmentMSC made of a payload (empty
\* payload included) returns the payload.
C6_SegmentRoundTrip ==
    (frmKind = "MSC" /\ frmPc = "reassembled") => frmOut = Some(frmIn)

C6_Witness ==
    /\ frmKind = "MSC" /\ frmPc = "reassembled"
    /\ Len(frmIn) = MaxMscSegments * MaxPayload + 1
    /\ Len(frmWire) = MaxMscSegments + 1
    /\ frmOut = Some(frmIn)

\* C7: encodeFAC gives 72 bits, the last 8 being the CRC-8 of the first 64
\* packed MSB-first into 8 bytes, and decodeFAC of them gives Mode B, SO_0,
\* 16-QAM, interleaver depth 1, one service of type 1.
C7_FacRoundTrip ==
    (frmKind = "FAC" /\ frmFlip = -1) =>
        /\ frmPc \in {"encoded", "decoded"} =>
              /\ Len(frmWire) = 72
              /\ Len(packBits(SubSeq(frmWire, 1, 64))) = 8
              /\ \A k \in 0 .. 7 :
                    frmWire[65 + k]
                      = (crc8(packBits(SubSeq(frmWire, 1, 64))) \div Pow2(7 - k)) % 2
        /\ frmPc = "decoded" =>
              frmOut = Some([mode |-> "B", specOccupancy |-> "SO_0", mscQam |-> 16,
                             interleaveDepth |-> 1, numServices |-> 1,
                             serviceType |-> 1])

C7_Witness ==
    /\ frmKind = "FAC" /\ frmFlip = -1 /\ frmPc = "decoded"
    /\ frmOut # Null
    /\ frmOut[1].mscQam = 16

C9_CrcSensitivity ==
    (frmPc = "decoded" /\ frmFlip >= 0) => frmOut = Null

\* the part of C9 that concerns FAC and SDC
FacSdcFlipRejected ==
    (frmPc = "decoded" /\ frmFlip >= 0 /\ frmKind \in {"FAC", "SDC"}) => frmOut = Null

\* the MSC flips that are not rejected: a data-free result for a flip that
\* turns totalSegments into 0
MscFlipOutcome ==
    (frmPc = "decoded" /\ frmFlip >= 0 /\ frmKind = "MSC") =>
        \/ frmOut = Null
        \/ /\ frmOut = Some(<<>>)
           /\ frmWire[3] = 0 /\ frmWire[4] = 0

---------------------------------------------------------------------------
(* reassembleMSC on segment lists as a receiver may hand them over: the    *)
(* segments of a payload with some dropped, corrupted, repeated or         *)
(* reordered                                                               *)

\* edits applied to one list, at most
MaxListEdits == 2

\* seeds of the payloads that are segmented
MaxListSeed == 1

ListPayloadLengths == {0, 3, MaxPayload + 1}

ListPayloads == {PayloadOf(n, seed) : n \in ListPayloadLengths, seed \in 1 .. MaxListSeed}

RemoveAt(list, i) == SubSeqFrom(list, 1, i - 1) \o SubSeqFrom(list, i + 1, Len(list))

InsertAt(list, i, e) == SubSeqFrom(list, 1, i - 1) \o <<e>> \o SubSeqFrom(list, i, Len(list))

\* a further CRC-valid segment numbered segNo, with other data
RepeatOf(seg, segNo) ==
    LET data == <<(segNo + 1) % 256, 7>>
    IN [seg EXCEPT !.segNo = segNo,
                   !.data = data,
                   !.crc = SegmentCrc(segNo, seg.totalSegments, data)]

ListInit ==
    /\ frmPc = "input"
    /\ frmKind = "LIST"
    /\ frmIn \in ListPayloads
    /\ frmWire = <<>>
    /\ frmFlip = -1
    /\ frmOut = <<>>
    /\ FecIdle
    /\ IlvIdle
    /\ SlotIdle
    /\ PipeIdle
    /\ SizeIdle
    /\ OfdmIdle
    /\ QamIdle

\* segmentMSC(fileData); frmFlip counts the edits from here on
ListSegment ==
    /\ frmPc = "input" /\ frmKind = "LIST"
    /\ frmWire' = segmentMSC(frmIn)
    /\ frmFlip' = 0
    /\ frmPc' = "segments"
    /\ UNCHANGED <<frmKind, frmIn, frmOut, NotFrm>>

ListEditable == frmPc = "segments" /\ frmKind = "LIST" /\ frmFlip < MaxListEdits

\* a segment is lost
DropSegment ==
    /\ ListEditable
    /\ \E i \in 1 .. Len(frmWire) : frmWire' = RemoveAt(frmWire, i)
    /\ frmFlip' = frmFlip + 1
    /\ UNCHANGED <<frmPc, frmKind, frmIn, frmOut, NotFrm>>

\* the CRC field of a segment arrives with its lowest bit inverted
CorruptCrc ==
    /\ ListEditable
    /\ \E i \in 1 .. Len(frmWire) :
          frmWire' = [frmWire EXCEPT ![i].crc = BitXor(@, 1)]
    /\ frmFlip' = frmFlip + 1
    /\ UNCHANGED <<frmPc, frmKind, frmIn, frmOut, NotFrm>>

\* the totalSegments field of a segment arrives as 0, its CRC field as sent
ZeroTotalField ==
    /\ ListEditable
    /\ \E i \in 1 .. Len(frmWire) :
          frmWire' = [frmWire EXCEPT ![i].totalSegments = 0]
    /\ frmFlip' = frmFlip + 1
    /\ UNCHANGED <<frmPc, frmKind, frmIn, frmOut, NotFrm>>

\* a CRC-valid segment with the number of segment i, or with the first
\* number past the range, is put at position j
InsertRepeat ==
    /\ ListEditable
    /\ \E i \in 1 .. Len(frmWire), j \in 1 .. Len(frmWire) + 1 :
          \E segNo \in {frmWire[i].segNo, frmWire[i].totalSegments} :
              frmWire' = InsertAt(frmWire, j, RepeatOf(frmWire[i], segNo))
    /\ frmFlip' = frmFlip + 1
    /\ UNCHANGED <<frmPc, frmKind, frmIn, frmOut, NotFrm>>

\* the segments arrive in the opposite order
ReverseList ==
    /\ ListEditable
    /\ Len(frmWire) > 1
    /\ frmWire' = MakeSeq(Len(frmWire), LAMBDA i : frmWire[Len(frmWire) + 1 - i])
    /\ frmFlip' = frmFlip + 1
    /\ UNCHANGED <<frmPc, frmKind, frmIn, frmOut, NotFrm>>

\* the expectedTotal of decodeSamples: ceil(payloadBytes / (MSC_SEGMENT_BYTES - 4))
DecoderExpectedTotal(payloadBytes) == CeilDiv(payloadBytes, MSC_SEGMENT_BYTES - 4)

\* reassembleMSC(segments) and reassembleMSC(segments, expectedTotal);
\* frmFlip records the expectedTotal used, -1 when it is left out
ReassembleList ==
    /\ frmPc = "segments" /\ frmKind = "LIST"
    /\ \E e \in {Null, Some(DecoderExpectedTotal(Len(frmIn)))} :
          /\ frmOut' = reassembleMSC(frmWire, e)
          /\ frmFlip' = IF e = Null THEN -1 ELSE e[1]
    /\ frmPc' = "reassembled"
    /\ UNCHANGED <<frmKind, frmIn, frmWire, NotFrm>>

ListNext ==
    \/ ListSegment
    \/ DropSegment
    \/ CorruptCrc
    \/ ZeroTotalField
    \/ InsertRepeat
    \/ ReverseList
    \/ ReassembleList

SpecSegments == ListInit /\ [][ListNext]_vars

\* the CRC-16 over header and data equals the segment's crc field
CrcVerifies(seg) ==
    crc16(SegmentHeader(seg.segNo, seg.totalSegments) \o seg.data) = seg.crc

\* for each position of the list, whether the segment there verifies
CrcVerdicts(segments) == MakeSeq(Len(segments), LAMBDA j : CrcVerifies(segments[j]))

\* positions of the CRC-valid segments numbered n
ValidAt(segments, ok, n) ==
    {j \in 1 .. Len(segments) : segments[j].segNo = n /\ ok[j]}

FirstValidAt(segments, ok, n) ==
    CHOOSE j \in ValidAt(segments, ok, n) : \A k \in ValidAt(segments, ok, n) : j <= k

\* the total reassembleMSC works with
TotalUsed ==
    IF frmFlip >= 0 THEN frmFlip
    ELSE IF Len(frmWire) > 0 THEN frmWire[1].totalSegments ELSE 0

SomeIndexMissing(ok) == \E i \in 0 .. TotalUsed - 1 : ValidAt(frmWire, ok, i) = {}

ListReassembled == frmPc = "reassembled" /\ frmKind = "LIST"

\* the general rule of reassembleMSC: null for an empty list and whenever an
\* index in 0..total-1 has no CRC-valid segment, else the data of the first
\* CRC-valid segment of each index, in index order
ReassembleRule ==
    ListReassembled =>
        \A ok \in {CrcVerdicts(frmWire)} :
            /\ Len(frmWire) = 0 => frmOut = Null
            /\ SomeIndexMissing(ok) => frmOut = Null
            /\ (Len(frmWire) > 0 /\ ~SomeIndexMissing(ok)) =>
                   frmOut = Some(FoldRange(LAMBDA result, i :
                                               result \o frmWire[FirstValidAt(frmWire, ok, i)].data,
                                           <<>>, 0, TotalUsed - 1))

\* C12: reassembleMSC keeps per segNo the first CRC-valid segment in input
\* order and returns null whenever an index in 0..total-1 has no CRC-valid
\* segment; in particular it returns null for an empty list, for a list
\* missing a segment, and for a list whose only segment has a corrupted CRC.
C12_ReassembleRejects ==
    /\ ReassembleRule
    /\ (ListReassembled /\ Len(frmWire) = 1 /\ ~CrcVerifies(frmWire[1])) =>
           frmOut = Null

\* what reassembleMSC returns of the list when it requires total segments
ResultRequiring(ok, total) ==
    IF \E i \in 0 .. total - 1 : ValidAt(frmWire, ok, i) = {}
    THEN Null
    ELSE Some(FoldRange(LAMBDA result, i :
                            result \o frmWire[FirstValidAt(frmWire, ok, i)].data,
                        <<>>, 0, total - 1))

\* C29: when reassembleMSC is called without expectedTotal and the first
\* list entry fails its CRC check, the number of segments required and
\* returned is the totalSegments of a segment whose CRC verifies; the
\* failing first entry never decides it, and with no verifying segment
\* nothing is returned.
C29_TotalFromVerifiedSegment ==
    (ListReassembled /\ frmFlip = -1 /\ Len(frmWire) > 0) =>
        \A ok \in {CrcVerdicts(frmWire)} :
            ~ok[1] =>
                IF \A j \in 1 .. Len(frmWire) : ~ok[j]
                THEN frmOut = Null
                ELSE \E j \in 1 .. Len(frmWire) :
                        /\ ok[j]
                        /\ frmOut = ResultRequiring(ok, frmWire[j].totalSegments)

\* what decides the count when expectedTotal is left out: the first list
\* entry, whether or not its CRC verifies
FirstEntryDecides ==
    (ListReassembled /\ frmFlip = -1 /\ Len(frmWire) > 0) =>
        \A ok \in {CrcVerdicts(frmWire)} :
            frmOut = ResultRequiring(ok, frmWire[1].totalSegments)

---------------------------------------------------------------------------
(* The slot layout: getMSCSlots run one loop iteration at a time           *)

SlotInit ==
    /\ slotSym = 0
    /\ slotKi = 0
    /\ slotList = <<>>
    /\ FecIdle
    /\ IlvIdle
    /\ FrmIdle
    /\ PipeIdle
    /\ SizeIdle
    /\ OfdmIdle
    /\ QamIdle

\* ki++ and, at the end of the inner loop, sym++
SlotAdvance ==
    /\ slotKi' = IF slotKi + 1 < NUM_CARRIERS THEN slotKi + 1 ELSE 0
    /\ slotSym' = IF slotKi + 1 < NUM_CARRIERS THEN slotSym ELSE slotSym + 1

\* `continue`: a time-pilot carrier, a FAC cell or an SDC cell
SkipSlot ==
    /\ slotSym \in 0 .. SYMBOLS_PER_FRAME - 1
    /\ SlotIsSkipped(slotSym, slotKi)
    /\ SlotAdvance
    /\ UNCHANGED <<slotList, NotSlot>>

\* slots.push({ sym, ki })
PushSlot ==
    /\ slotSym \in 0 .. SYMBOLS_PER_FRAME - 1
    /\ ~SlotIsSkipped(slotSym, slotKi)
    /\ slotList' = Append(slotList, [sym |-> slotSym, ki |-> slotKi])
    /\ SlotAdvance
    /\ UNCHANGED NotSlot

SlotNext == SkipSlot \/ PushSlot

SpecSlots == SlotInit /\ [][SlotNext]_vars

\* the scan has left the outer loop
SlotScanDone == slotSym = SYMBOLS_PER_FRAME

\* slots as <<symbol, relative carrier k>>
AllSlots == (0 .. SYMBOLS_PER_FRAME - 1) \X (K_MIN .. K_MAX)

TimePilotSlots == {s \in AllSlots : isTimePilot(s[2])}

FreqPilotSlots == {s \in AllSlots : isFreqPilot(s[1], s[2])}

FacSlots == {s \in AllSlots : Includes(FAC_CELLS, s)}

SdcSlots == {s \in AllSlots : Includes(SDC_CELLS, s)}

MscSlots == {<<slotList[i].sym, K_MIN + slotList[i].ki>> : i \in 1 .. Len(slotList)}

PairwiseDisjoint(sets) ==
    \A i, j \in 1 .. Len(sets) : i # j => sets[i] \cap sets[j] = {}

\* C10, as stated: the time-pilot, frequency-pilot, FAC, SDC and MSC slot
\* sets are pairwise disjoint and together cover the 15 x 29 = 435 slots,
\* with 75 time-pilot, 7 frequency-pilot, 2 FAC and 6 SDC slots.
C10_FiveSetsPartition ==
    SlotScanDone =>
        /\ PairwiseDisjoint(<<TimePilotSlots, FreqPilotSlots, FacSlots, SdcSlots, MscSlots>>)
        /\ TimePilotSlots \cup FreqPilotSlots \cup FacSlots \cup SdcSlots \cup MscSlots
              = AllSlots
        /\ Cardinality(AllSlots) = 435
        /\ Cardinality(TimePilotSlots) = 75
        /\ Cardinality(FreqPilotSlots) = 7
        /\ Cardinality(FacSlots) = 2
        /\ Cardinality(SdcSlots) = 6

\* C10, amended: the time-pilot (75), FAC (2), SDC (6) and MSC (352) slot
\* sets are pairwise disjoint and cover the 435 slots, each slot once; the
\* 7 frequency-pilot slots all lie on time-pilot carriers, so they are
\* time-pilot slots and not a fifth disjoint set.
C10_FourSetsPartition ==
    SlotScanDone =>
        /\ PairwiseDisjoint(<<TimePilotSlots, FacSlots, SdcSlots, MscSlots>>)
        /\ TimePilotSlots \cup FacSlots \cup SdcSlots \cup MscSlots = AllSlots
        /\ Cardinality(AllSlots) = 435
        /\ Cardinality(TimePilotSlots) = 75
        /\ Cardinality(FacSlots) = 2
        /\ Cardinality(SdcSlots) = 6
        /\ Cardinality(MscSlots) = 352
        /\ Len(slotList) = 352
        /\ Cardinality(FreqPilotSlots) = 7
        /\ FreqPilotSlots \subseteq TimePilotSlots

C10_Witness ==
    /\ SlotScanDone
    /\ Len(slotList) = 352
    /\ <<0, -9>> \in TimePilotSlots \cap FreqPilotSlots

\* entries of a slot list that lie in one symbol
SlotsInSymbol(list, sym) == {i \in 1 .. Len(list) : list[i].sym = sym}

\* position of a slot in symbol-major, carrier-ascending order
SlotOrdinal(slot) == slot.sym * NUM_CARRIERS + slot.ki

\* C11: the decoder's MSC slot list, at every point of its scan, is the
\* beginning of the encoder's list, entry by entry, and is listed
\* symbol-major and carrier-ascending; once the scan is over both lists
\* have exactly 352 entries, 16 in symbol 0 and 24 in each of symbols 1..14.
C11_MscSlotLists ==
    /\ Len(slotList) <= Len(EncoderMscSlots)
    /\ \A i \in 1 .. Len(slotList) : slotList[i] = EncoderMscSlots[i]
    /\ \A i \in 1 .. Len(slotList) - 1 :
           SlotOrdinal(slotList[i]) < SlotOrdinal(slotList[i + 1])
    /\ SlotScanDone =>
           /\ slotList = EncoderMscSlots
           /\ slotList = DecoderMscSlots
           /\ Len(slotList) = 352
           /\ Cardinality(SlotsInSymbol(slotList, 0)) = 16
           /\ \A sym \in 1 .. SYMBOLS_PER_FRAME - 1 :
                  Cardinality(SlotsInSymbol(slotList, sym)) = 24

C11_Witness ==
    /\ SlotScanDone
    /\ slotList[1] = [sym |-> 0, ki |-> 0]
    /\ slotList[17] = [sym |-> 1, ki |-> 0]
    /\ slotList[Len(slotList)] = [sym |-> SYMBOLS_PER_FRAME - 1, ki |-> NUM_CARRIERS - 1]


---------------------------------------------------------------------------
(* The chain end to end: encodeImage from the JPEG bytes on, a clean       *)
(* channel, decodeSamples                                                  *)

\* the longest payload tried, in bytes
MaxPipeBytes == 3

MaxPipeSeed == 2

PipePayloads ==
    {PayloadOf(n, seed) : n \in 1 .. MaxPipeBytes, seed \in 1 .. MaxPipeSeed}

\* residual errors of the equalised cells, per frame: none, or one that
\* changes from frame to frame
NoisePatterns ==
    {<<<<0, 0>>>>, <<<<1, 1>>, <<-1, 1>>, <<-1, -1>>, <<1, -1>>>>}

PipeInit ==
    /\ pipePc = "start"
    /\ pipePayload \in PipePayloads
    /\ pipeNoise \in NoisePatterns
    /\ pipePlan = <<>>
    /\ pipeFrames = <<>>
    /\ pipeRx = <<>>
    /\ pipeOut = <<>>
    /\ FecIdle
    /\ IlvIdle
    /\ FrmIdle
    /\ SlotIdle
    /\ SizeIdle
    /\ OfdmIdle
    /\ QamIdle

\* encodeImage, steps 2 to 7
EncodeStart ==
    /\ pipePc = "start"
    /\ pipePlan' = EncoderPlan(pipePayload)
    /\ pipePc' = "encoding"
    /\ UNCHANGED <<pipePayload, pipeNoise, pipeFrames, pipeRx, pipeOut, NotPipe>>

\* encodeImage, step 8: one pass of the frame loop
EncodeFrame ==
    /\ pipePc = "encoding"
    /\ Len(pipeFrames) < pipePlan.numSuperframes * FRAMES_PER_SUPERFRAME
    /\ pipeFrames' = Append(pipeFrames,
                            ofdmModulate(FrameDataCells(pipePlan, Len(pipeFrames))))
    /\ UNCHANGED <<pipePc, pipePayload, pipeNoise, pipePlan, pipeRx, pipeOut, NotPipe>>

\* encodeImage, steps 9 and 10, then decodeSamples up to its frame loop:
\* the samples are at SAMPLE_RATE, the first symbol starts at sample 0,
\* and numFrames = max(1, floor(samples / 4800))
StartDecode ==
    /\ pipePc = "encoding"
    /\ Len(pipeFrames) = pipePlan.numSuperframes * FRAMES_PER_SUPERFRAME
    /\ pipeRx' = [numFrames |-> Max(1, Len(pipeFrames)), done |-> 0,
                  msc |-> <<>>, fac |-> <<>>, sdc |-> <<>>]
    /\ pipePc' = "decoding"
    /\ UNCHANGED <<pipePayload, pipeNoise, pipePlan, pipeFrames, pipeOut, NotPipe>>

\* decodeSamples: one pass of the loop over the demodulated frames
DecodeFrame ==
    /\ pipePc = "decoding"
    /\ pipeRx.done < pipeRx.numFrames
    /\ LET noise == pipeNoise[(pipeRx.done % Len(pipeNoise)) + 1]
           bits == FrameBits(EqualisedFrame(pipeFrames[pipeRx.done + 1], noise))
       IN pipeRx' = [pipeRx EXCEPT !.done = @ + 1,
                                   !.msc = @ \o bits.msc,
                                   !.fac = @ \o bits.fac,
                                   !.sdc = @ \o bits.sdc]
    /\ UNCHANGED <<pipePc, pipePayload, pipeNoise, pipePlan, pipeFrames, pipeOut, NotPipe>>

\* decodeSamples after the frame loop
FinishDecode ==
    /\ pipePc = "decoding"
    /\ pipeRx.done = pipeRx.numFrames
    /\ pipeOut' = DecodeResult(pipeRx.msc, pipeRx.fac, pipeRx.sdc, pipeRx.done)
    /\ pipePc' = "done"
    /\ UNCHANGED <<pipePayload, pipeNoise, pipePlan, pipeFrames, pipeRx, NotPipe>>

PipeNext ==
    \/ EncodeStart
    \/ EncodeFrame
    \/ StartDecode
    \/ DecodeFrame
    \/ FinishDecode

SpecPipeline == PipeInit /\ [][PipeNext]_vars

\* C1: on a clean channel the decoder returns the payload the encoder was
\* given, byte for byte.
C1_CleanChannelRoundTrip ==
    pipePc = "done" => pipeOut.jpegBytes = Some(pipePayload)

\* what the decoder returns instead: nothing
PipeDecodeFails == pipePc = "done" => pipeOut.jpegBytes = Null

---------------------------------------------------------------------------
(* drmEncoder.ts: DRMEncoder.encodeImage followed by sizes only.  Every    *)
(* length below is the length of the array the code builds at that step.   *)

FFT_SIZE == 256

GUARD_SAMPLES == 64

\* total OFDM symbol length = Tu + Tg
SYMBOL_SAMPLES == FFT_SIZE + GUARD_SAMPLES

\* samples per transmission frame; the length of what ofdmModulate returns
FRAME_SAMPLES == SYMBOLS_PER_FRAME * SYMBOL_SAMPLES

\* step 3: the segments serialised one after another, each
\* MSC_SEGMENT_HEADER_BYTES + data + 2 bytes long
SerialisedBytes(n) ==
    n + SegmentCount(n) * (MSC_SEGMENT_HEADER_BYTES + 2)

\* convEncode: one group of kept bits per input bit and per tail step
ConvEncodedBits(numBits, puncture) ==
    (numBits + (ConvK - 1)) * BitsPerInput(puncture)

\* step 5
BitsPerSuperframe == MSC_BITS_PER_FRAME * FRAMES_PER_SUPERFRAME

\* a plausible slip: whole super-frames only, the rest of the bits dropped
NumSuperframesFloor(encodedBits) == encodedBits \div BitsPerSuperframe

\* Math.ceil(encodedMSC.length / bitsPerSuperframe)
NumSuperframes(encodedBits) == CeilDiv(encodedBits, BitsPerSuperframe)

\* the payloadBytes field as encodeSDC writes it
SdcLengthField(sdcBytes) == sdcBytes[1] * 65536 + sdcBytes[2] * 256 + sdcBytes[3]

\* writeWAV: numSamples * blockAlign as setUint32 stores it, 32 bits wide,
\* given as its high and its low 16-bit word
WavDataBytes(numSamples) ==
    <<(numSamples \div 32768) % 65536, (numSamples % 32768) * 2>>

\* a 32-bit value given as two 16-bit words, modulo m (m below 2^15)
WordsMod(words, m) == ((words[1] % m) * (65536 % m) + words[2]) % m

\* payload lengths followed: every length from 0 to MaxSmallBytes, the
\* lengths around whole segments, and the lengths around the largest the
\* SDC length field holds
MaxSmallBytes == 180

MaxSizeSegments == 3

MaxOversize == 20

EncoderLengths ==
    (0 .. MaxSmallBytes)
        \cup {k * MaxPayload + d : k \in 1 .. MaxSizeSegments, d \in {-1, 0, 1}}
        \cup {SDC_MAX_PAYLOAD_BYTES + d : d \in -1 .. MaxOversize}

SizeInit ==
    /\ szPc = "start"
    /\ szBytes \in EncoderLengths
    /\ szOut = <<>>
    /\ FecIdle
    /\ IlvIdle
    /\ FrmIdle
    /\ SlotIdle
    /\ PipeIdle
    /\ OfdmIdle
    /\ QamIdle

\* steps 2 to 5: segment, serialise, convolutionally encode, pad
SizePlan ==
    /\ szPc = "start"
    /\ LET encodedBits == ConvEncodedBits(8 * SerialisedBytes(szBytes), PUNCTURE_MSC)
           numSuperframes == NumSuperframes(encodedBits)
       IN szOut' = [segments |-> SegmentCount(szBytes),
                    payloadBytes |-> SerialisedBytes(szBytes),
                    encodedBits |-> encodedBits,
                    numSuperframes |-> numSuperframes,
                    paddedBits |-> numSuperframes * BitsPerSuperframe]
    /\ szPc' = "planned"
    /\ UNCHANGED <<szBytes, NotSize>>

\* steps 6 and 7: encodeSDC(jpegBytes.length)
SizeSdc ==
    /\ szPc = "planned"
    /\ szOut' = [k \in DOMAIN szOut \cup {"sdcLength"} |->
                    IF k = "sdcLength"
                    THEN SdcLengthField(encodeSDC(szBytes, ImageJpeg))
                    ELSE szOut[k]]
    /\ szPc' = "signalled"
    /\ UNCHANGED <<szBytes, NotSize>>

\* steps 8 to 10: FRAMES_PER_SUPERFRAME frames of FRAME_SAMPLES samples per
\* super-frame, concatenated and written as 16-bit PCM
SizeRender ==
    /\ szPc = "signalled"
    /\ LET frames == szOut.numSuperframes * FRAMES_PER_SUPERFRAME
           totalSamples == frames * FRAME_SAMPLES
       IN szOut' = [k \in DOMAIN szOut \cup {"frames", "totalSamples", "dataBytes"} |->
                       CASE k = "frames" -> frames
                         [] k = "totalSamples" -> totalSamples
                         [] k = "dataBytes" -> WavDataBytes(totalSamples)
                         [] OTHER -> szOut[k]]
    /\ szPc' = "written"
    /\ UNCHANGED <<szBytes, NotSize>>

SizeNext == SizePlan \/ SizeSdc \/ SizeRender

SpecEncoderSize == SizeInit /\ [][SizeNext]_vars

\* C13: a payload longer than 2^24 - 1 bytes is refused: the encoder
\* produces no output for it, and signals no SDC length that differs from
\* the payload's length.
C13_OversizeRefused ==
    szBytes > SDC_MAX_PAYLOAD_BYTES =>
        /\ szPc # "written"
        /\ szPc = "signalled" => szOut.sdcLength = szBytes

\* what the encoder does with such a payload: it writes the WAV, with the
\* SDC length field at 2^24 - 1
OversizeClamped ==
    (szPc = "written" /\ szBytes > SDC_MAX_PAYLOAD_BYTES) =>
        szOut.sdcLength = SDC_MAX_PAYLOAD_BYTES

\* C18: the encoder emits a whole number of super-frames: the frame count
\* is 3 * ceil(encodedBits / 4224) and at least 3, the sample count is a
\* multiple of 320 and of 4800, the data chunk size is a multiple of 9600
\* bytes, and the MSC capacity of the frames is at least the number of
\* convolutionally encoded bits.
C18_WholeSuperframes ==
    szPc = "written" =>
        /\ BitsPerSuperframe = 4224
        /\ szOut.frames = 3 * CeilDiv(szOut.encodedBits, 4224)
        /\ szOut.frames >= 3
        /\ szOut.totalSamples % 320 = 0
        /\ szOut.totalSamples % 4800 = 0
        /\ szOut.totalSamples = szOut.frames * 4800
        /\ WordsMod(szOut.dataBytes, 9600) = 0
        /\ szOut.frames * MSC_BITS_PER_FRAME >= szOut.encodedBits
        /\ szOut.paddedBits = szOut.frames * MSC_BITS_PER_FRAME

C18_Witness ==
    /\ szPc = "written"
    /\ szBytes <= MaxSmallBytes
    /\ szOut.frames = 6
    /\ szOut.encodedBits > 4224

\* the sizes followed above are those of the bit streams and frames the
\* encoder builds
PlanMatchesSizes ==
    /\ pipePc \in {"encoding", "decoding", "done"} =>
           LET encodedBits ==
                   ConvEncodedBits(8 * SerialisedBytes(Len(pipePayload)), PUNCTURE_MSC)
           IN /\ pipePlan.numSuperframes = NumSuperframes(encodedBits)
              /\ Len(pipePlan.paddedMSC) = NumSuperframes(encodedBits) * BitsPerSuperframe
              /\ SdcLengthField(packBits(pipePlan.sdcBits)) = Len(pipePayload)
    /\ pipePc \in {"decoding", "done"} =>
           Len(pipeFrames) = pipePlan.numSuperframes * FRAMES_PER_SUPERFRAME

---------------------------------------------------------------------------
(* drmDecoder.ts: decodeSamples on samples that are no DRM signal: an      *)
(* empty vector, a vector shorter than a symbol, silence, noise.  The      *)
(* run is described by pipePlan: the number of samples (at SAMPLE_RATE),   *)
(* what they hold, and the position coarseSync returns for them.           *)

\* the longest input, in frames
MaxRxFrames == 2

\* noise inputs differ by their seed
MaxRxSeed == 3

RxLengths ==
    {0, SYMBOL_SAMPLES - 1, SYMBOL_SAMPLES, FRAME_SAMPLES, MaxRxFrames * FRAME_SAMPLES}

\* coarseSync: maxSearch = min(length - SYMBOL_SAMPLES, 2 * SYMBOL_SAMPLES),
\* the result is 0 when the loop does not run or no position correlates,
\* else a position below maxSearch
SyncPositions(numSamples, kind) ==
    LET maxSearch == Min(numSamples - SYMBOL_SAMPLES, 2 * SYMBOL_SAMPLES)
    IN IF kind = 0 \/ maxSearch <= 0 THEN {0}
       ELSE {0, maxSearch - 1}

\* the equalised cell of a noise input: any value at all
NoiseCell(seed, frameNo, symN, kiN) ==
    LET h == seed * 131 + frameNo * 977 + symN * 389 + kiN * 53
    IN <<((h * h) % 8009) - 4000, ((h * 31) % 7993) - 4000>>

\* ofdmDemodulate, estimateChannel and equalise of frame frameNo: silence
\* and samples past the end of the input give cells of 0, which equalise
\* to [0, 0]; noise gives arbitrary cells.  kind 0 is silence, kind n > 0
\* noise of seed n.
ReceivedFrame(kind, frameNo) ==
    MakeSeq(SYMBOLS_PER_FRAME,
            LAMBDA symN :
                MakeSeq(NUM_CARRIERS,
                        LAMBDA kiN : IF kind = 0 THEN ZeroCell
                                     ELSE NoiseCell(kind, frameNo, symN, kiN)))

RxInit ==
    /\ pipePc = "received"
    /\ \E numSamples \in RxLengths, kind \in 0 .. MaxRxSeed :
          \E syncPos \in SyncPositions(numSamples, kind) :
              pipePlan = [numSamples |-> numSamples, kind |-> kind, syncPos |-> syncPos]
    /\ pipePayload = <<>>
    /\ pipeNoise = <<<<0, 0>>>>
    /\ pipeFrames = <<>>
    /\ pipeRx = <<>>
    /\ pipeOut = <<>>
    /\ FecIdle
    /\ IlvIdle
    /\ FrmIdle
    /\ SlotIdle
    /\ SizeIdle
    /\ OfdmIdle
    /\ QamIdle

\* a frame count without the floor of one frame
RxNumFramesNoFloor(availableSamples) ==
    availableSamples \div (SYMBOL_SAMPLES * SYMBOLS_PER_FRAME)

\* decodeSamples: numFrames
RxNumFrames(availableSamples) ==
    Max(1, availableSamples \div (SYMBOL_SAMPLES * SYMBOLS_PER_FRAME))

\* decodeSamples up to its frame loop: numFrames = max(1, floor(available
\* samples / (SYMBOL_SAMPLES * SYMBOLS_PER_FRAME))), and that many frames
\* demodulated whatever the input holds
ReceiveSamples ==
    /\ pipePc = "received"
    /\ LET availableSamples == pipePlan.numSamples - pipePlan.syncPos
           numFrames == RxNumFrames(availableSamples)
       IN /\ pipeFrames' = MakeSeq(numFrames,
                                   LAMBDA f : ReceivedFrame(pipePlan.kind, f))
          /\ pipeRx' = [numFrames |-> numFrames, done |-> 0,
                        msc |-> <<>>, fac |-> <<>>, sdc |-> <<>>]
    /\ pipePc' = "decoding"
    /\ UNCHANGED <<pipePayload, pipeNoise, pipePlan, pipeOut, NotPipe>>

RxNext == ReceiveSamples \/ DecodeFrame \/ FinishDecode

SpecReceiver == RxInit /\ [][RxNext]_vars

\* the segments the decoder has found in the MSC bits
RxSegments == deserialiseSegments(packBits(viterbiDecode(pipeRx.msc, PUNCTURE_MSC)))

\* the total reassembly works with
RxTotal(segments) ==
    IF pipeOut.sdcParams # Null
    THEN CeilDiv(pipeOut.sdcParams[1].payloadBytes, MSC_SEGMENT_BYTES - 4)
    ELSE IF Len(segments) > 0 THEN segments[1].totalSegments ELSE 0

\* reassembly cannot find every segment
RxSegmentMissing(segments) ==
    \/ Len(segments) = 0
    \/ \A ok \in {CrcVerdicts(segments)} :
           \E i \in 0 .. RxTotal(segments) - 1 : ValidAt(segments, ok, i) = {}

\* C14: whatever the samples (empty, shorter than a symbol, silence,
\* noise), decodeSamples runs to its end and returns a result with
\* diagnostics in which framesDecoded >= 1; when reassembly cannot find
\* every segment the result holds no payload and still the diagnostics.
C14_DecoderNeverFails ==
    /\ pipePc = "decoding" =>
           /\ pipeRx.numFrames >= 1
           /\ pipeRx.done <= pipeRx.numFrames
           /\ Len(pipeFrames) = pipeRx.numFrames
    /\ pipePc = "done" =>
           /\ pipeOut.framesDecoded >= 1
           /\ pipeOut.framesDecoded = pipeRx.numFrames
           /\ pipeOut.segmentErrors \in 0 .. pipeOut.segments
           /\ \A segments \in {RxSegments} :
                  RxSegmentMissing(segments) =>
                      /\ pipeOut.jpegBytes = Null
                      /\ pipeOut.segmentErrors = Len(segments)

C14_Witness ==
    /\ pipePc = "done"
    /\ pipePlan.numSamples = SYMBOL_SAMPLES - 1
    /\ pipePlan.kind > 0
    /\ pipeOut.framesDecoded = 1
    /\ pipeOut.jpegBytes = Null

\* what the decoder returns for each of these inputs: no payload
RxNoPayload == pipePc = "done" => pipeOut.jpegBytes = Null

---------------------------------------------------------------------------
(* The framer in isolation, continued: the shape of segmentMSC's result    *)
(* and the serialised form of the segments                                 *)

\* the sum of the data lengths of a segment list
DataBytes(segments) ==
    FoldRange(LAMBDA sum, j : sum + Len(segments[j].data), 0, 1, Len(segments))

\* C15: segmentMSC of n bytes returns exactly max(1, ceil(n / 796))
\* segments, numbered 0, 1, 2, ... in order, all with the same
\* totalSegments (the count), each with at most 796 data bytes and all but
\* the last with exactly 796, the data lengths adding up to n, and isLast
\* set on the final segment only.
C15_SegmentShape ==
    (frmKind = "MSC" /\ frmPc = "segmented") =>
        LET n == Len(frmIn)
            count == Len(frmWire)
        IN /\ count = IF n = 0 THEN 1 ELSE (n + 795) \div 796
           /\ \A j \in 1 .. count :
                 /\ frmWire[j].segNo = j - 1
                 /\ frmWire[j].totalSegments = count
                 /\ Len(frmWire[j].data) <= 796
                 /\ j < count => Len(frmWire[j].data) = 796
                 /\ frmWire[j].isLast <=> j = count
           /\ DataBytes(frmWire) = n

C15_Witness ==
    /\ frmKind = "MSC" /\ frmPc = "segmented"
    /\ Len(frmIn) = MaxMscSegments * 796 + 1
    /\ Len(frmWire) = MaxMscSegments + 1
    /\ Len(frmWire[1].data) = 796
    /\ Len(frmWire[Len(frmWire)].data) = 1
    /\ frmWire[Len(frmWire)].isLast

---------------------------------------------------------------------------
(* drmOfdm.ts: ofdmModulate from the IFFT on.  The IFFT output of a        *)
(* symbol is taken as given: FFT_SIZE real values, here integers.  The     *)
(* output holds the samples of the symbols written so far.                 *)

MaxOfdmSeed == 7

\* sample values are kept to this many fractional bits when scaled
SampleFractionBits == 15

\* the real part of the IFFT output of symbol symIdx: never all zero, the
\* pilots being part of every symbol
IfftOutput(seed, symIdx) ==
    MakeSeq(FFT_SIZE,
            LAMBDA n : (((n * n * seed) + (7 * n) + (13 * symIdx) + seed) % 2001) - 1000)

\* a plausible slip: the guard interval copied from the head of the symbol
GuardSourceHead(i) == i

\* the guard sample i is re[FFT_SIZE - GUARD_SAMPLES + i]
GuardSource(i) == FFT_SIZE - GUARD_SAMPLES + i

\* one pass of the symbol loop after the IFFT: the guard interval, then
\* the useful part
SymbolSamples(re) ==
    MakeSeq(GUARD_SAMPLES, LAMBDA n : re[GuardSource(n - 1) + 1])
        \o MakeSeq(FFT_SIZE, LAMBDA n : re[n])

Abs(v) == IF v < 0 THEN -v ELSE v

\* output.reduce((m, v) => Math.max(m, Math.abs(v)), 0)
PeakOf(samples) ==
    FoldRange(LAMBDA m, n : Max(m, Abs(samples[n])), 0, 1, Len(samples))

\* output[i] *= 0.9 / peak, to the precision samples are kept at
ScaledSample(v, peak) == (v * 9 * Pow2(SampleFractionBits)) \div (10 * peak)

OfdmInit ==
    /\ ofdmPc = "symbols"
    /\ \E seed \in 1 .. MaxOfdmSeed :
          ofdmIfft = MakeSeq(SYMBOLS_PER_FRAME, LAMBDA symN : IfftOutput(seed, symN - 1))
    /\ ofdmOut = <<>>
    /\ FecIdle
    /\ IlvIdle
    /\ FrmIdle
    /\ SlotIdle
    /\ PipeIdle
    /\ SizeIdle
    /\ QamIdle

\* the symbol loop of ofdmModulate, one symbol
AssembleSymbol ==
    /\ ofdmPc = "symbols"
    /\ LET symIdx == Len(ofdmOut) \div SYMBOL_SAMPLES
       IN /\ ofdmOut' = ofdmOut \o SymbolSamples(ofdmIfft[symIdx + 1])
          /\ ofdmPc' = IF symIdx + 1 < SYMBOLS_PER_FRAME THEN "symbols" ELSE "assembled"
    /\ UNCHANGED <<ofdmIfft, NotOfdm>>

\* the normalisation that ends ofdmModulate
NormaliseFrame ==
    /\ ofdmPc = "assembled"
    /\ \E peak \in {PeakOf(ofdmOut)} :
          ofdmOut' = IF peak > 0
                     THEN MakeSeq(Len(ofdmOut), LAMBDA n : ScaledSample(ofdmOut[n], peak))
                     ELSE ofdmOut
    /\ ofdmPc' = "normalised"
    /\ UNCHANGED <<ofdmIfft, NotOfdm>>

OfdmNext == AssembleSymbol \/ NormaliseFrame

SpecOfdm == OfdmInit /\ [][OfdmNext]_vars

\* the largest magnitude of the frame's IFFT outputs
IfftPeak ==
    FoldRange(LAMBDA m, symN : Max(m, PeakOf(ofdmIfft[symN])), 0, 1, Len(ofdmIfft))

\* C19: for every symbol ofdmModulate has emitted, with o the symbol's
\* IFFT output (256 values) and s the emitted symbol (320 samples),
\* s[0..64) is o[192..256) and s[64..320) is o[0..256), up to the scale
\* common to the frame, so the first 64 samples of the symbol equal its
\* last 64.
C19_CyclicPrefix ==
    \A peak \in {IfftPeak} :
        \A symIdx \in 0 .. (Len(ofdmOut) \div 320) - 1 :
            LET o == ofdmIfft[symIdx + 1]
                s(i) == ofdmOut[symIdx * 320 + i + 1]
                common(v) == IF ofdmPc = "normalised" THEN ScaledSample(v, peak) ELSE v
            IN /\ \A i \in 0 .. 63 :
                      /\ s(i) = common(o[192 + i + 1])
                      /\ s(i) = s(256 + i)
               /\ \A i \in 0 .. 255 : s(64 + i) = common(o[i + 1])

C19_Witness ==
    /\ ofdmPc = "normalised"
    /\ Len(ofdmOut) = 15 * 320
    /\ \E symIdx \in 0 .. 14 :
          /\ ofdmOut[symIdx * 320 + 1] # ofdmOut[symIdx * 320 + 65]
          /\ ofdmOut[symIdx * 320 + 1] = ofdmOut[symIdx * 320 + 257]
          /\ ofdmOut[symIdx * 320 + 1] # 0

---------------------------------------------------------------------------
(* drmEncoder.ts: the mappers in isolation.  Two bit labels of the same    *)
(* length, 2 bits for 4-QAM and 4 bits for 16-QAM, are mapped to their     *)
(* constellation points.                                                   *)

QamInit ==
    /\ qamPc = "labels"
    /\ \E n \in {2, 4} : qamBits \in BitVectors(n) \X BitVectors(n)
    /\ qamCells = <<>>
    /\ qamOut = <<>>
    /\ FecIdle
    /\ IlvIdle
    /\ FrmIdle
    /\ SlotIdle
    /\ PipeIdle
    /\ SizeIdle
    /\ OfdmIdle

\* map4QAM or map16QAM of each label
MapLabels ==
    /\ qamPc = "labels"
    /\ qamCells' = [n \in 1 .. 2 |->
                       IF Len(qamBits[n]) = 2 THEN map4QAM(qamBits[n])
                       ELSE map16QAM(qamBits[n])]
    /\ qamPc' = "mapped"
    /\ UNCHANGED <<qamBits, qamOut, NotQam>>

\* demap4QAM or demap16QAM of each point
DemapCells ==
    /\ qamPc = "mapped"
    /\ qamOut' = [n \in 1 .. 2 |->
                     IF Len(qamBits[n]) = 2
                     THEN demap4QAM(qamCells[n][1], qamCells[n][2])
                     ELSE demap16QAM(qamCells[n][1], qamCells[n][2])]
    /\ qamPc' = "demapped"
    /\ UNCHANGED <<qamBits, qamCells, NotQam>>

QamNext == MapLabels \/ DemapCells

SpecMapper == QamInit /\ [][QamNext]_vars

\* the points of the table the labels of this length index
QamTable(labelBits) ==
    IF labelBits = 2 THEN {QAM4_CONSTELLATION[s] : s \in 0 .. 3}
    ELSE {QAM16_CONSTELLATION[s] : s \in 0 .. 15}

Distance2(p, q) == (p[1] - q[1]) ^ 2 + (p[2] - q[2]) ^ 2

\* p and q are adjacent along the real or the imaginary axis: they share
\* one coordinate and no other pair of points of the table is closer
NearestNeighbours(p, q, table) ==
    /\ p # q
    /\ p[1] = q[1] \/ p[2] = q[2]
    /\ \A a \in table, b \in table : a # b => Distance2(p, q) <= Distance2(a, b)

\* the number of positions in which two labels differ
HammingDistance(a, b) == Cardinality({i \in 1 .. Len(a) : a[i] # b[i]})

\* C20: in the 4-QAM table and in the 16-QAM table, two points that are
\* nearest neighbours (adjacent along the real or the imaginary axis)
\* carry bit labels that differ in exactly one bit.
C20_GrayCoded ==
    (/\ qamPc \in {"mapped", "demapped"}
     /\ NearestNeighbours(qamCells[1], qamCells[2], QamTable(Len(qamBits[1])))) =>
        HammingDistance(qamBits[1], qamBits[2]) = 1

\* the 16-QAM table is Gray-coded
Qam16GrayCoded ==
    (/\ qamPc \in {"mapped", "demapped"}
     /\ Len(qamBits[1]) = 4
     /\ NearestNeighbours(qamCells[1], qamCells[2], QamTable(4))) =>
        HammingDistance(qamBits[1], qamBits[2]) = 1

\* in the 4-QAM table the neighbours along the real axis differ in one
\* bit, those along the imaginary axis in two
Qam4AxisLabels ==
    (/\ qamPc \in {"mapped", "demapped"}
     /\ Len(qamBits[1]) = 2
     /\ NearestNeighbours(qamCells[1], qamCells[2], QamTable(2))) =>
        HammingDistance(qamBits[1], qamBits[2]) =
            IF qamCells[1][2] = qamCells[2][2] THEN 1 ELSE 2

---------------------------------------------------------------------------
(* The MSC byte stream as the decoder sees it: the serialised segments     *)
(* followed by the zero bytes that padding the encoded bits to a whole     *)
(* super-frame leaves after Viterbi decoding                               *)

\* the most zero bytes appended besides the encoder's own padding
MaxPadBytes == 7

PadPayloadLengths == {1, 3, MaxPayload - 1, MaxPayload, MaxPayload + 1, 2 * MaxPayload}

\* the bytes decodeSamples packs the Viterbi output into, less the
\* serialised segments: the padded stream has numSuperframes *
\* bitsPerSuperframe bits, the decoder drops the K - 1 tail bits
EncoderPadBytes(serialisedBytes) ==
    LET encodedBits == ConvEncodedBits(8 * serialisedBytes, PUNCTURE_MSC)
        paddedBits == NumSuperframes(encodedBits) * BitsPerSuperframe
        decodedBits == (paddedBits \div BitsPerInput(PUNCTURE_MSC)) - (ConvK - 1)
    IN CeilDiv(decodedBits, 8) - serialisedBytes

PadInit ==
    /\ frmPc = "input"
    /\ frmKind = "MSC"
    /\ \E n \in PadPayloadLengths, seed \in 1 .. MaxPayloadSeed : frmIn = PayloadOf(n, seed)
    /\ frmWire = <<>>
    /\ frmFlip = -1
    /\ frmOut = <<>>
    /\ FecIdle
    /\ IlvIdle
    /\ SlotIdle
    /\ PipeIdle
    /\ SizeIdle
    /\ OfdmIdle
    /\ QamIdle

\* zero bytes follow the serialised segments; frmFlip records how many
PadStream ==
    /\ frmPc = "encoded" /\ frmKind = "MSC"
    /\ \E pad \in (0 .. MaxPadBytes) \cup {EncoderPadBytes(Len(frmWire))} :
          /\ frmWire' = frmWire \o MakeSeq(pad, LAMBDA n : 0)
          /\ frmFlip' = pad
    /\ frmPc' = "padded"
    /\ UNCHANGED <<frmKind, frmIn, frmOut, NotFrm>>

\* decodeSamples: deserialiseSegments, then reassembleMSC with the total
\* the SDC record gives, or without one when no SDC record was decoded,
\* then the diagnostics
DecodePadded ==
    /\ frmPc = "padded"
    /\ \E e \in {Null, Some(DecoderExpectedTotal(Len(frmIn)))} :
          \E segments \in {deserialiseSegments(frmWire)} :
              \E reassembled \in {reassembleMSC(segments, e)} :
                  frmOut' = [jpegBytes |-> reassembled,
                             segments |-> Len(segments),
                             segmentErrors |-> SegmentErrors(segments, reassembled)]
    /\ frmPc' = "decoded"
    /\ UNCHANGED <<frmKind, frmIn, frmWire, frmFlip, NotFrm>>

PadNext == SegmentMSC \/ SerialiseMSC \/ PadStream \/ DecodePadded

SpecPadding == PadInit /\ [][PadNext]_vars

\* C21: for a non-empty payload, deserialiseSegments of the serialised
\* segments followed by any number of zero bytes yields, as its first
\* totalSegments entries, the original segments with their data lengths
\* and CRCs, and reassembleMSC returns the payload.
C21_PaddingHarmless ==
    (frmPc \in {"padded", "decoded"} /\ Len(frmIn) > 0) =>
        \A read \in {deserialiseSegments(frmWire)}, made \in {segmentMSC(frmIn)} :
            /\ Len(read) >= Len(made)
            /\ \A j \in 1 .. Len(made) :
                  /\ read[j].segNo = made[j].segNo
                  /\ read[j].totalSegments = made[j].totalSegments
                  /\ read[j].data = made[j].data
                  /\ read[j].crc = made[j].crc
            /\ frmPc = "decoded" => frmOut.jpegBytes = Some(frmIn)

\* padding is harmless exactly when there is none or the last segment is
\* full.  Otherwise the last segment is read with its own CRC bytes and
\* zero bytes as data, which CRC-16 (no final XOR) accepts against the
\* bytes that follow, and reassembly returns the payload with those
\* bytes appended.
PaddingOutcome ==
    frmPc = "decoded" =>
        IF frmFlip = 0 \/ Len(frmIn) % MaxPayload = 0
        THEN frmOut.jpegBytes = Some(frmIn)
        ELSE /\ frmOut.jpegBytes # Null
             /\ Len(frmOut.jpegBytes[1]) =
                    Min(Len(frmIn) + frmFlip,
                        SegmentCount(Len(frmIn)) * MaxPayload)
             /\ SubSeq(frmOut.jpegBytes[1], 1, Len(frmIn)) = frmIn


\* C22: for each of the four bit pairs (b0, b1), demap4QAM of the point
\* map4QAM([b0, b1]) returns [b0, b1].
C22_Demap4Inverts ==
    (qamPc = "demapped" /\ Len(qamBits[1]) = 2) => qamOut = qamBits

\* what demap4QAM returns for the point of each label: 01 for 00, 11 for
\* 01, 00 for 10 and 10 for 11, never the label itself
Demap4Outcome ==
    (qamPc = "demapped" /\ Len(qamBits[1]) = 2) =>
        \A n \in 1 .. 2 :
            qamOut[n] = CASE qamBits[n] = <<0, 0>> -> <<0, 1>>
                          [] qamBits[n] = <<0, 1>> -> <<1, 1>>
                          [] qamBits[n] = <<1, 0>> -> <<0, 0>>
                          [] qamBits[n] = <<1, 1>> -> <<1, 0>>

\* C30: the 16 points of the 16-QAM table are pairwise distinct and, for
\* each of the sixteen 4-bit words b (MSB first), demap16QAM of the point
\* map16QAM(b) returns b.
C30_Demap16Inverts ==
    Len(qamBits) = 2 /\ Len(qamBits[1]) = 4 =>
        /\ (qamPc \in {"mapped", "demapped"} /\ qamBits[1] # qamBits[2]) =>
               qamCells[1] # qamCells[2]
        /\ qamPc = "demapped" => qamOut = qamBits

C30_Witness ==
    /\ qamPc = "demapped"
    /\ qamBits = <<<<0, 1, 1, 1>>, <<1, 0, 0, 0>>>>
    /\ qamOut = qamBits
    /\ qamCells[1] # qamCells[2]

---------------------------------------------------------------------------
(* The FAC and SDC channels across the frames of one transmission.  The    *)
(* MSC cells of the frames are left out: no FAC or SDC cell is an MSC      *)
(* slot, and the decoder reads the FAC and SDC cells by position.          *)

\* payload lengths that give 1 super-frame, 4 (the first count whose
\* frames hold the whole SDC record) and 7 (past one cycle of the FAC word)
ControlPayloadLengths == {1, 522, 1100}

MaxControlSeed == 2

CtlInit ==
    /\ pipePc = "start"
    /\ \E n \in ControlPayloadLengths, seed \in 1 .. MaxControlSeed :
          pipePayload = PayloadOf(n, seed)
    /\ pipeNoise = <<<<0, 0>>>>
    /\ pipePlan = <<>>
    /\ pipeFrames = <<>>
    /\ pipeRx = <<>>
    /\ pipeOut = <<>>
    /\ FecIdle
    /\ IlvIdle
    /\ FrmIdle
    /\ SlotIdle
    /\ SizeIdle
    /\ OfdmIdle
    /\ QamIdle

\* encodeImage, steps 5 to 7: the number of super-frames, the FAC and
\* the SDC bits
CtlPlan ==
    /\ pipePc = "start"
    /\ pipePlan' =
          [numSuperframes |->
               NumSuperframes(ConvEncodedBits(8 * SerialisedBytes(Len(pipePayload)),
                                              PUNCTURE_MSC)),
           facBits |-> encodeFAC,
           sdcBits |-> unpackAllBits(encodeSDC(Len(pipePayload), ImageJpeg))]
    /\ pipePc' = "encoding"
    /\ UNCHANGED <<pipePayload, pipeNoise, pipeFrames, pipeRx, pipeOut, NotPipe>>

\* encodeImage, step 8: the FAC and SDC cells of one pass of the frame
\* loop, modulated
CtlSendFrame ==
    /\ pipePc = "encoding"
    /\ Len(pipeFrames) < pipePlan.numSuperframes * FRAMES_PER_SUPERFRAME
    /\ LET frameNo == Len(pipeFrames)
       IN pipeFrames' =
              Append(pipeFrames,
                     ofdmModulate(ControlCells(FAC_CELLS, pipePlan.facBits,
                                               Len(FAC_CELLS) * 2, frameNo)
                                  \o ControlCells(SDC_CELLS, pipePlan.sdcBits,
                                                  Len(SDC_CELLS) * 2, frameNo)))
    /\ UNCHANGED <<pipePc, pipePayload, pipeNoise, pipePlan, pipeRx, pipeOut, NotPipe>>

\* decodeSamples: the FAC and SDC part of one pass of the frame loop
CtlReceiveFrame ==
    /\ pipePc = "decoding"
    /\ pipeRx.done < pipeRx.numFrames
    /\ LET noise == pipeNoise[(pipeRx.done % Len(pipeNoise)) + 1]
           eqSymbols == EqualisedFrame(pipeFrames[pipeRx.done + 1], noise)
       IN pipeRx' = [pipeRx EXCEPT !.done = @ + 1,
                                   !.fac = @ \o ControlBits(eqSymbols, FAC_CELLS),
                                   !.sdc = @ \o ControlBits(eqSymbols, SDC_CELLS)]
    /\ UNCHANGED <<pipePc, pipePayload, pipeNoise, pipePlan, pipeFrames, pipeOut, NotPipe>>

\* decodeSamples after the frame loop: decodeFAC and decodeSDC
CtlFinish ==
    /\ pipePc = "decoding"
    /\ pipeRx.done = pipeRx.numFrames
    /\ pipeOut' = [facParams |-> decodeFAC(Slice(pipeRx.fac, 0, 72)),
                   sdcParams |-> decodeSDC(packBits(pipeRx.sdc)),
                   framesDecoded |-> pipeRx.done]
    /\ pipePc' = "done"
    /\ UNCHANGED <<pipePayload, pipeNoise, pipePlan, pipeFrames, pipeRx, NotPipe>>

CtlNext ==
    \/ CtlPlan
    \/ CtlSendFrame
    \/ StartDecode
    \/ CtlReceiveFrame
    \/ CtlFinish

SpecControl == CtlInit /\ [][CtlNext]_vars

\* the bit pair whose 4-QAM point a cell of the grid holds
CarriedPair(grid, cell) ==
    CHOOSE b \in BitVectors(2) : map4QAM(b) = grid[cell[1] + 1][cell[2] - K_MIN + 1]

\* the bits the cells of a frame carry, in cell order
CarriedBits(grid, cells) ==
    FoldRange(LAMBDA bits, n : bits \o CarriedPair(grid, cells[n]), <<>>, 1, Len(cells))

\* the bits the cells of all frames sent so far carry, in frame order
CarriedSoFar(cells) ==
    FoldRange(LAMBDA bits, f : bits \o CarriedBits(pipeFrames[f], cells),
              <<>>, 1, Len(pipeFrames))

\* a bit string continued with zeros
ZeroFilled(bits, length) ==
    MakeSeq(length, LAMBDA n : IF n <= Len(bits) THEN bits[n] ELSE 0)


\* what the encoder announces in the SDC record
SdcAnnounced == Some([payloadBytes |-> Len(pipePayload), mimeType |-> ImageJpeg])

\* C23: frame f carries SDC bits starting at offset (12 * f) mod
\* |sdcBits|, and on a clean channel, once the frames sent have carried at
\* least the whole SDC bit string, decodeSDC over the decoder's
\* accumulated SDC bits succeeds and returns the encoder's payload length
\* and MIME type.
C23_SdcRecovered ==
    /\ pipePc \in {"encoding", "decoding", "done"} =>
           \A f \in 0 .. Len(pipeFrames) - 1 :
               LET length == Len(pipePlan.sdcBits)
                   offset == (12 * f) % length
               IN CarriedBits(pipeFrames[f + 1], SDC_CELLS) =
                      ZeroFilled(SubSeqFrom(pipePlan.sdcBits, offset + 1,
                                            Min(offset + 12, length)), 12)
    /\ (pipePc = "done" /\ 12 * Len(pipeFrames) >= Len(pipePlan.sdcBits)) =>
           pipeOut.sdcParams = SdcAnnounced

\* the decoder recovers no SDC record from any of these transmissions
SdcNeverRecovered == pipePc = "done" => pipeOut.sdcParams = Null

\* decodeSDC over the SDC bits as the frames carry them, that is with a
\* demapper that inverts the mapper: it takes the last 16 bits carried as
\* the CRC, and no number of frames carries a whole number of records
CarriedSdcNotRecovered ==
    (pipePc = "done" /\ Len(pipePayload) >= 256) =>
        decodeSDC(packBits(CarriedSoFar(SDC_CELLS))) = Null

\* C26: the two FAC cells of frame f carry, in order, the 4 bits of the
\* 72-bit FAC word at positions (4 * f) mod 72 .. (4 * f) mod 72 + 3 (the
\* slice never runs past bit 71), so frames 18 * j .. 18 * j + 17 together
\* carry every FAC bit exactly once in word order.
C26_FacCycle ==
    pipePc \in {"encoding", "decoding", "done"} =>
        /\ Len(pipePlan.facBits) = 72
        /\ \A f \in 0 .. Len(pipeFrames) - 1 :
               LET offset == (4 * f) % 72
               IN /\ offset + 3 <= 71
                  /\ CarriedBits(pipeFrames[f + 1], FAC_CELLS) =
                         SubSeq(pipePlan.facBits, offset + 1, offset + 4)
        /\ \A j \in 0 .. (Len(pipeFrames) \div 18) - 1 :
               FoldRange(LAMBDA bits, f :
                             bits \o CarriedBits(pipeFrames[f + 1], FAC_CELLS),
                         <<>>, 18 * j, 18 * j + 17) = pipePlan.facBits

C26_Witness ==
    /\ pipePc = "encoding"
    /\ Len(pipeFrames) = 21
    /\ CarriedBits(pipeFrames[19], FAC_CELLS) = SubSeq(pipePlan.facBits, 1, 4)
    /\ CarriedBits(pipeFrames[18], FAC_CELLS) = SubSeq(pipePlan.facBits, 69, 72)
    /\ CarriedSoFar(FAC_CELLS) =
           pipePlan.facBits \o SubSeq(pipePlan.facBits, 1, 12)

---------------------------------------------------------------------------
(* The Viterbi decoder on received vectors of any content, not only on     *)
(* code words                                                              *)

\* every vector of at most this many bits is received
MaxRxBits == 8

\* longer received vectors, long enough for every state to be live
LongRxBits == 24

MaxRxPattern == 3

ReceivedVectors ==
    UNION {BitVectors(n) : n \in 0 .. MaxRxBits}
        \cup {PatternBits(LongRxBits, seed) : seed \in 1 .. MaxRxPattern}

RxBitsInit ==
    /\ fecPc = "encoded"
    /\ fecIn = <<>>
    /\ fecPunct \in PunctureNames
    /\ fecEnc \in ReceivedVectors
    /\ fecOut = <<>>
    /\ IlvIdle
    /\ FrmIdle
    /\ SlotIdle
    /\ PipeIdle
    /\ SizeIdle
    /\ OfdmIdle
    /\ QamIdle

SpecViterbi == RxBitsInit /\ [][FecDecode]_vars

\* the number of positions in which a differs from the first Len(a) bits
\* of b
DistanceTo(a, b) == Cardinality({i \in 1 .. Len(a) : a[i] # b[i]})

\* C25: for every received vector r and puncture pattern P, with N =
\* floor(|r| / popcount(P)), the N-bit sequence the traceback recovers
\* (before the last 6 bits are dropped) minimises, over all N-bit input
\* sequences started from state 0, the Hamming distance between its
\* punctured encoding and the first N * popcount(P) bits of r; among equal
\* final metrics the smallest final state index is chosen.
C25_ViterbiOptimal ==
    fecPc = "decoded" =>
        LET P == Puncture(fecPunct)
            N == Len(fecEnc) \div PatternOnes(P)
        IN \A fwd \in {ViterbiForward(fecEnc, P, N)} :
             \A recovered \in {Traceback(fwd.traceback, BestState(fwd.pm))} :
               \A mine \in {ConvData(recovered, P)} :
                 /\ Len(recovered) = N
                 /\ fecOut = SubSeq(recovered, 1, Max(0, N - 6))
                 /\ Len(mine.output) = N * PatternOnes(P)
                 /\ \A x \in BitVectors(N) :
                       \A other \in {ConvData(x, P)} :
                          /\ DistanceTo(mine.output, fecEnc)
                                <= DistanceTo(other.output, fecEnc)
                          /\ DistanceTo(mine.output, fecEnc)
                                = DistanceTo(other.output, fecEnc)
                                => mine.state <= other.state

C25_Witness ==
    /\ fecPc = "decoded"
    /\ fecPunct = "SDC"
    /\ Len(fecEnc) = LongRxBits
    /\ \A x \in BitVectors(3) : convEncode(x, PUNCTURE_SDC) # SubSeq(fecEnc, 1, 18)
    /\ Len(fecOut) = (LongRxBits \div 2) - 6


\* the number of segments of a list that fail their CRC check
CrcFailures(segments) ==
    LET ok == CrcVerdicts(segments)
    IN Cardinality({j \in 1 .. Len(segments) : ~ok[j]})

\* C27: diagnostics.segmentErrors is the number of deserialised MSC
\* segments that failed their CRC check, whether or not reassembly
\* succeeded.
C27_SegmentErrorCount ==
    (frmKind = "MSC" /\ frmPc = "decoded") =>
        \A failures \in {CrcFailures(deserialiseSegments(frmWire))} :
            frmOut.segmentErrors = failures

\* what the field holds: 0 when reassembly succeeded, else the number of
\* segments read, whatever their CRCs
SegmentErrorsAllOrNone ==
    (frmKind = "MSC" /\ frmPc = "decoded") =>
        frmOut.segmentErrors = IF frmOut.jpegBytes # Null THEN 0 ELSE frmOut.segments


---------------------------------------------------------------------------
(* drmEncoder.ts: the samples of a whole transmission.  encodeImage calls  *)
(* ofdmModulate once per frame, collects what it returns and concatenates  *)
(* the frames.  Here ofdmIfft holds the IFFT outputs of every frame of a   *)
(* transmission of one superframe and ofdmOut the list allFrames, then     *)
(* the combined samples.                                                   *)

\* the frames of the transmission are drawn from this many
MaxTxSeed == 4

\* the levels the frames of a transmission come at
MaxFrameLevel == 3

\* the real part of the IFFT output of symbol symIdx of a frame: frames
\* differ in their data cells, and so in the level of their samples
FrameIfftOutput(seed, symIdx) ==
    MakeSeq(FFT_SIZE,
            LAMBDA n : (1 + (seed % MaxFrameLevel))
                         * ((((n * n * seed) + (7 * n) + (13 * symIdx) + seed) % 2001) - 1000))

\* the samples of one frame before the normalisation: its symbols, each
\* with its guard interval
FrameSamples(ifft) ==
    FoldRange(LAMBDA acc, symN : acc \o SymbolSamples(ifft[symN]), <<>>, 1, Len(ifft))

\* the end of ofdmModulate: the frame scaled by 0.9 / peak, peak being the
\* largest magnitude of this frame's samples
NormalisedFrame(output) ==
    CHOOSE r \in {LET peak == CHOOSE p \in {PeakOf(output)} : TRUE
                  IN IF peak > 0
                     THEN MakeSeq(Len(output), LAMBDA n : ScaledSample(output[n], peak))
                     ELSE output} : TRUE

\* what one call of ofdmModulate returns, from the IFFT outputs on
ModulatedFrame(ifft) == NormalisedFrame(FrameSamples(ifft))

\* step 9 of encodeImage: combined.set(frame, pos) for every frame
CombinedFrames(allFrames) ==
    FoldRange(LAMBDA acc, f : acc \o allFrames[f], <<>>, 1, Len(allFrames))

TxInit ==
    /\ ofdmPc = "frames"
    /\ \E seeds \in [1 .. FRAMES_PER_SUPERFRAME -> 1 .. MaxTxSeed] :
             ofdmIfft = MakeSeq(FRAMES_PER_SUPERFRAME,
                                LAMBDA f : MakeSeq(SYMBOLS_PER_FRAME,
                                                   LAMBDA symN : FrameIfftOutput(seeds[f], symN - 1)))
    /\ ofdmOut = <<>>
    /\ FecIdle
    /\ IlvIdle
    /\ FrmIdle
    /\ SlotIdle
    /\ PipeIdle
    /\ SizeIdle
    /\ QamIdle

\* one pass of the frame loop of encodeImage, from the call of
\* ofdmModulate on
ModulateFrame ==
    /\ ofdmPc = "frames"
    /\ Len(ofdmOut) < Len(ofdmIfft)
    /\ ofdmOut' = Append(ofdmOut, ModulatedFrame(ofdmIfft[Len(ofdmOut) + 1]))
    /\ UNCHANGED <<ofdmPc, ofdmIfft, NotOfdm>>

\* steps 9 and 10 of encodeImage up to the samples handed to writeWAV
ConcatenateFrames ==
    /\ ofdmPc = "frames"
    /\ Len(ofdmOut) = Len(ofdmIfft)
    /\ ofdmOut' = CombinedFrames(ofdmOut)
    /\ ofdmPc' = "combined"
    /\ UNCHANGED <<ofdmIfft, NotOfdm>>

TxNext == ModulateFrame \/ ConcatenateFrames

SpecTransmission == TxInit /\ [][TxNext]_vars

\* the samples of frame f of the transmission before any scaling
RawFrame(f) == FrameSamples(ofdmIfft[f])

\* C28: all frames of one transmission are scaled by one common factor
\* 0.9 / peak, peak being the largest magnitude over the whole
\* concatenated sequence of the frames (applied only if peak is not zero);
\* no frame is scaled by a factor computed from that frame alone.
C28_GlobalNormalisation ==
    ofdmPc = "combined" =>
        \A raw \in {CombinedFrames(MakeSeq(Len(ofdmIfft), RawFrame))} :
            \A peak \in {PeakOf(raw)} :
                /\ Len(ofdmOut) = Len(raw)
                /\ \A n \in 1 .. Len(raw) :
                      ofdmOut[n] = IF peak > 0 THEN ScaledSample(raw[n], peak) ELSE raw[n]

\* what the combined samples are: every frame scaled by 0.9 over its own
\* peak
PerFrameNormalisation ==
    ofdmPc = "combined" =>
        /\ Len(ofdmOut) = Len(ofdmIfft) * SYMBOLS_PER_FRAME * SYMBOL_SAMPLES
        /\ \A f \in 1 .. Len(ofdmIfft) :
              \A raw \in {RawFrame(f)} :
                 \A peak \in {PeakOf(raw)} :
                    \A n \in 1 .. Len(raw) :
                       ofdmOut[(f - 1) * Len(raw) + n] = ScaledSample(raw[n], peak)

\* a transmission whose frames differ in their peaks
FramePeaksDiffer ==
    /\ ofdmPc = "combined"
    /\ \E f \in 2 .. Len(ofdmIfft) : PeakOf(RawFrame(1)) # PeakOf(RawFrame(f))

=============================================================================
